---- MODULE Spec2Model ----
(***************************************************************************)
(* LaTeX document-integrity pipeline of agent-research-skills:             *)
(*   skills/latex-formatting/scripts/clean_latex.py     (sanitizer)        *)
(*   skills/latex-formatting/scripts/latex_checker.py   (balance check)    *)
(*   skills/paper-compilation/scripts/fix_latex_errors.py (repair passes)  *)
(*                                                                         *)
(* A document is a sequence of characters; a character is a one-character  *)
(* string; a non-ASCII code point, and the quote characters u0022, u0027  *)
(* and u0060, are written "uXXXX".  Offsets are Python offsets (0-based,   *)
(* slices half-open), so that every operator can be read against the      *)
(* source line it models.                                                  *)
(***************************************************************************)
EXTENDS Integers, Sequences, FiniteSets, TLC

VARIABLES
    pc,      \* which operation has been applied to the input
    doc,     \* the input document (content read from the .tex file)
    files,   \* the figure files that exist under the document directory
    spans,   \* the spans of the last segmentation, in emission order
    out,     \* the text returned by the operation
    out2,    \* the text returned by a second application to out
    fixes,   \* the LatexFix names recorded by the last repair pass
    issues,  \* the findings of the balance check, or of parse_errors
    args,    \* the command line of fix_latex_errors.py
    fs,      \* which of the files named on the command line exist
    log,     \* the content of the log file
    stdout,  \* what the run has written to standard output
    stderr,  \* what the run has printed to standard error
    outfile, \* the texts the run has written to the output file, in order
    status,  \* the exit status of the run once it has exited, as <<code>>
    commands, \* the compilation sequence of the compile_latex call
    ran,     \* the commands that call has run so far, with their return codes
    success, \* the success flag of compile_latex, then of compile_paper.main
    attempt, \* the auto-fix attempt of compile_paper.main, 0 before the loop
    calls    \* what compile_paper.main has called so far, in order

\* the variables of a run of fix_latex_errors.main
io == <<args, fs, log, stdout, stderr, outfile, status>>

\* the variables of a run of compile_paper.main
build == <<commands, ran, success, attempt, calls>>

vars == <<pc, doc, files, spans, out, out2, fixes, issues, io, build>>

\* None: an option that was not given, a file that was not found
None == "None"

\* no run of fix_latex_errors.main is under way
NoRun ==
    /\ args = None
    /\ fs = None
    /\ log = <<>>
    /\ stdout = <<>>
    /\ stderr = <<>>
    /\ outfile = <<>>
    /\ status = <<>>

\* no run of compile_paper.main is under way
NoBuild ==
    /\ commands = <<>>
    /\ ran = <<>>
    /\ success = FALSE
    /\ attempt = 0
    /\ calls = <<>>

----------------------------------------------------------------------------
(* Python string primitives                                                *)

Min(a, b) == IF a < b THEN a ELSE b
Max(a, b) == IF a > b THEN a ELSE b

\* text[i] with a Python offset
At(text, i) == text[i + 1]

\* text[s:e], clipped like a Python slice
Slice(text, s, e) == SubSeq(text, Max(s, 0) + 1, Min(e, Len(text)))

\* text[i:i+len(lit)] == lit
HasAt(text, i, lit) ==
    /\ i >= 0
    /\ i + Len(lit) <= Len(text)
    /\ \A k \in 1..Len(lit) : text[i + k] = lit[k]

MinOf(S) == CHOOSE x \in S : \A y \in S : x <= y
MaxOf(S) == CHOOSE x \in S : \A y \in S : x >= y

\* str.find(lit, from): the least offset >= from where lit occurs, else -1
Find(text, lit, from) ==
    LET at == {j \in Max(from, 0)..(Len(text) - Len(lit)) : HasAt(text, j, lit)}
    IN  IF at = {} THEN -1 ELSE MinOf(at)

\* str.rfind(lit, 0, end): the greatest offset where lit occurs within
\* text[0:end], else -1
RFind(text, lit, end) ==
    LET at == {j \in 0..(Min(end, Len(text)) - Len(lit)) : HasAt(text, j, lit)}
    IN  IF at = {} THEN -1 ELSE MaxOf(at)

\* the element of a one-element set; Only({e(v) : v \in {x}}) is e with v
\* bound to the value of x, as an assignment v = x before e binds it
Only(S) == CHOOSE x \in S : TRUE

\* "".join(parts[lo..hi])
RECURSIVE JoinRange(_, _, _)
JoinRange(parts, lo, hi) ==
    IF lo > hi THEN <<>>
    ELSE IF lo = hi THEN parts[lo]
    ELSE LET mid == (lo + hi) \div 2
         IN  JoinRange(parts, lo, mid) \o JoinRange(parts, mid + 1, hi)

\* "".join(parts)
Join(parts) == Only({JoinRange(p, 1, Len(p)) : p \in {parts}})

\* the least offset >= from whose character is in set, else len(text):
\* where a negated class [^c]* or a '.' without DOTALL stops
ScanTo(text, set, from) ==
    LET at == {j \in from..(Len(text) - 1) : At(text, j) \in set}
    IN  IF at = {} THEN Len(text) ELSE MinOf(at)

\* the offset after the first character in set at or after from, else -1:
\* [^c]*c for set = {c}
AfterFirst(text, set, from) ==
    LET j == ScanTo(text, set, from)
    IN  IF j >= Len(text) THEN -1 ELSE j + 1

----------------------------------------------------------------------------
(* clean_latex.py: the substitution tables                                 *)

BS == "\\"
NL == "\n"

\* CHARS, clean_latex.py:21-48 (key -> replacement text)
CHARS ==
    [c \in {"&", "%", "#", "_", "^", "<", ">", "u2264", "u2265", "u2260",
            "u00b1", "u00d7", "u00f7", "u00b0", "u221e", "u221a", "u2211",
            "u220f", "|", "u2208", "u2209", "u2200", "u2203", "u2205",
            "u200b", "u202f"} |->
       CASE c = "&" -> <<"\\", "&">>
         [] c = "%" -> <<"\\", "%">>
         [] c = "#" -> <<"\\", "#">>
         [] c = "_" -> <<"\\", "_">>
         [] c = "^" -> <<"\\", "t", "e", "x", "t", "a", "s", "c", "i", "i",
                         "c", "i", "r", "c", "u", "m", "{", "}">>
         [] c = "<" -> <<"$", "<", "$">>
         [] c = ">" -> <<"$", ">", "$">>
         [] c = "u2264" -> <<"$", "\\", "l", "e", "q", "$">>
         [] c = "u2265" -> <<"$", "\\", "g", "e", "q", "$">>
         [] c = "u2260" -> <<"$", "\\", "n", "e", "q", "$">>
         [] c = "u00b1" -> <<"$", "\\", "p", "m", "$">>
         [] c = "u00d7" -> <<"$", "\\", "t", "i", "m", "e", "s", "$">>
         [] c = "u00f7" -> <<"$", "\\", "d", "i", "v", "$">>
         [] c = "u00b0" -> <<"$", "^", "{", "\\", "c", "i", "r", "c", "}", "$">>
         [] c = "u221e" -> <<"$", "\\", "i", "n", "f", "t", "y", "$">>
         [] c = "u221a" -> <<"$", "\\", "s", "q", "r", "t", "{", "}", "$">>
         [] c = "u2211" -> <<"$", "\\", "s", "u", "m", "$">>
         [] c = "u220f" -> <<"$", "\\", "p", "r", "o", "d", "$">>
         [] c = "|" -> <<"\\", "t", "e", "x", "t", "b", "a", "r", "{", "}">>
         [] c = "u2208" -> <<"$", "\\", "i", "n", "$">>
         [] c = "u2209" -> <<"$", "\\", "n", "o", "t", "i", "n", "$">>
         [] c = "u2200" -> <<"$", "\\", "f", "o", "r", "a", "l", "l", "$">>
         [] c = "u2203" -> <<"$", "\\", "e", "x", "i", "s", "t", "s", "$">>
         [] c = "u2205" -> <<"$", "\\", "e", "m", "p", "t", "y", "s", "e", "t", "$">>
         [] c = "u200b" -> <<>>
         [] c = "u202f" -> <<" ">>]

\* NON_UTF8_CHARS, clean_latex.py:51-72, as (key, replacement) pairs in
\* the order the dictionary is iterated
NON_UTF8_CHARS ==
    << <<"u2013", <<"-", "-">> >>,
       <<"u2019", <<"u0027">> >>,
       <<"u2018", <<"u0060">> >>,
       <<"u201c", <<"u0060", "u0060">> >>,
       <<"u201d", <<"u0027", "u0027">> >>,
       <<"u00b2", <<"$", "^", "2", "$">> >>,
       <<"u00b3", <<"$", "^", "3", "$">> >>,
       <<"u00bc", <<"$", "\\", "f", "r", "a", "c", "{", "1", "}", "{", "4", "}", "$">> >>,
       <<"u00bd", <<"$", "\\", "f", "r", "a", "c", "{", "1", "}", "{", "2", "}", "$">> >>,
       <<"u00be", <<"$", "\\", "f", "r", "a", "c", "{", "3", "}", "{", "4", "}", "$">> >>,
       <<"u2206", <<"$", "\\", "D", "e", "l", "t", "a", "$">> >>,
       <<"u2207", <<"$", "\\", "n", "a", "b", "l", "a", "$">> >>,
       <<"u2202", <<"$", "\\", "p", "a", "r", "t", "i", "a", "l", "$">> >>,
       <<"u2014", <<"-", "-", "-">> >>,
       <<"u2026", <<"\\", "l", "d", "o", "t", "s", "{", "}">> >>,
       <<"u00e9", <<"\\", "u0027", "e">> >>,
       <<"u00e8", <<"\\", "u0060", "e">> >>,
       <<"u00fc", <<"\\", "u0022", "u">> >>,
       <<"u00f6", <<"\\", "u0022", "o">> >>,
       <<"u00e4", <<"\\", "u0022", "a">> >> >>

\* TABLE_CHARS, clean_latex.py:74-79
TABLE_CHARS ==
    [c \in {">", "<", "=", "|"} |->
       CASE c = ">" -> <<"$", ">", "$">>
         [] c = "<" -> <<"$", "<", "$">>
         [] c = "=" -> <<"$", "=", "$">>
         [] c = "|" -> <<"\\", "t", "e", "x", "t", "b", "a", "r", "{", "}">>]

\* LATEX_ENV_NAMES, clean_latex.py:91-95
LATEX_ENV_NAMES ==
    << <<"e", "q", "u", "a", "t", "i", "o", "n">>,
       <<"e", "q", "u", "a", "t", "i", "o", "n", "*">>,
       <<"a", "l", "i", "g", "n">>,
       <<"a", "l", "i", "g", "n", "*">>,
       <<"g", "a", "t", "h", "e", "r">>,
       <<"g", "a", "t", "h", "e", "r", "*">>,
       <<"m", "a", "t", "h">>,
       <<"d", "i", "s", "p", "l", "a", "y", "m", "a", "t", "h">>,
       <<"f", "i", "g", "u", "r", "e">>,
       <<"f", "i", "g", "u", "r", "e", "*">>,
       <<"l", "s", "t", "l", "i", "s", "t", "i", "n", "g">>,
       <<"t", "a", "b", "u", "l", "a", "r">>,
       <<"t", "a", "b", "u", "l", "a", "r", "*">>,
       <<"a", "r", "r", "a", "y">> >>

BeginLit(env) == <<"\\", "b", "e", "g", "i", "n", "{">> \o env \o <<"}">>
EndLit(env) == <<"\\", "e", "n", "d", "{">> \o env \o <<"}">>

LowerLetters ==
    {"a", "b", "c", "d", "e", "f", "g", "h", "i", "j", "k", "l", "m", "n",
     "o", "p", "q", "r", "s", "t", "u", "v", "w", "x", "y", "z"}
UpperLetters ==
    {"A", "B", "C", "D", "E", "F", "G", "H", "I", "J", "K", "L", "M", "N",
     "O", "P", "Q", "R", "S", "T", "U", "V", "W", "X", "Y", "Z"}
Digits == {"0", "1", "2", "3", "4", "5", "6", "7", "8", "9"}

Letters == LowerLetters \cup UpperLetters

\* the least offset >= from whose character is not in set, else len(text):
\* where a greedy class [c]* stops
ScanWhile(text, set, from) ==
    LET at == {j \in from..(Len(text) - 1) : At(text, j) \notin set}
    IN  IF at = {} THEN Len(text) ELSE MinOf(at)

----------------------------------------------------------------------------
(* clean_latex.py: build_skip_pattern.  Each alternative of SKIP_RE is an  *)
(* operator giving the end offset of its match starting at offset i, or    *)
(* -1 when it does not match there (i < len(text)).                        *)

\* (?<!\\)%[^\n]*                                      clean_latex.py:105
ReComment(text, i) ==
    IF At(text, i) = "%" /\ (i = 0 \/ At(text, i - 1) # BS)
    THEN ScanTo(text, {NL}, i + 1)
    ELSE -1

CommandDefKeywords ==
    { <<"\\", "n", "e", "w", "c", "o", "m", "m", "a", "n", "d">>,
      <<"\\", "r", "e", "n", "e", "w", "c", "o", "m", "m", "a", "n", "d">>,
      <<"\\", "p", "r", "o", "v", "i", "d", "e", "c", "o", "m", "m", "a", "n", "d">>,
      <<"\\", "D", "e", "c", "l", "a", "r", "e", "M", "a", "t", "h", "O", "p", "e", "r", "a", "t", "o", "r">> }

\* (?:\{[^}]*\}|\[[^\]]*\])*\{[^}]*\} from offset p: the groups are taken
\* greedily and the match backtracks to end with a brace group, so it ends
\* after the last brace group of the chain; last is that end so far
RECURSIVE ReArgGroups(_, _, _)
ReArgGroups(text, p, last) ==
    Only({ IF brace # -1 THEN ReArgGroups(text, brace, brace)
           ELSE Only({ IF brack # -1 THEN ReArgGroups(text, brack, last)
                       ELSE last :
                       brack \in {IF p < Len(text) /\ At(text, p) = "["
                                  THEN AfterFirst(text, {"]"}, p + 1)
                                  ELSE -1} }) :
           brace \in {IF p < Len(text) /\ At(text, p) = "{"
                      THEN AfterFirst(text, {"}"}, p + 1) ELSE -1} })

\* \\(?:(?:re)?newcommand|providecommand|DeclareMathOperator)\*?
\*    (?:\{[^}]*\}|\[[^\]]*\])*\{[^}]*\}               clean_latex.py:107-108
ReCommandDef(text, i) ==
    IF \E kw \in CommandDefKeywords : HasAt(text, i, kw)
    THEN LET kw == CHOOSE k \in CommandDefKeywords : HasAt(text, i, k)
             p == i + Len(kw)
             q == IF p < Len(text) /\ At(text, p) = "*" THEN p + 1 ELSE p
         IN  ReArgGroups(text, q, -1)
    ELSE -1

\* \\def\\[a-zA-Z@]+[^{]*\{[^}]*\}                     clean_latex.py:109
ReDef(text, i) ==
    IF /\ HasAt(text, i, <<"\\", "d", "e", "f", "\\">>)
       /\ i + 5 < Len(text)
       /\ At(text, i + 5) \in Letters \cup {"@"}
    THEN LET b == ScanTo(text, {"{"}, i + 6)
         IN  IF b >= Len(text) THEN -1 ELSE AfterFirst(text, {"}"}, b + 1)
    ELSE -1

\* \$\$.*?\$\$                                         clean_latex.py:111
ReDisplayMath(text, i) ==
    IF HasAt(text, i, <<"$", "$">>)
    THEN LET j == Find(text, <<"$", "$">>, i + 2)
         IN  IF j = -1 THEN -1 ELSE j + 2
    ELSE -1

\* (?<!\$)\$(?!\$) at offset j
IsLoneDollar(text, j) ==
    /\ At(text, j) = "$"
    /\ (j = 0 \/ At(text, j - 1) # "$")
    /\ (j + 1 >= Len(text) \/ At(text, j + 1) # "$")

FindLoneDollar(text, from) ==
    LET at == {j \in from..(Len(text) - 1) : IsLoneDollar(text, j)}
    IN  IF at = {} THEN -1 ELSE MinOf(at)

\* (?<!\$)\$(?!\$).*?(?<!\$)\$(?!\$)                   clean_latex.py:112
ReInlineMath(text, i) ==
    IF IsLoneDollar(text, i)
    THEN LET j == FindLoneDollar(text, i + 1)
         IN  IF j = -1 THEN -1 ELSE j + 1
    ELSE -1

\* open.*?close where a missing close lets the match run to the end
ReDelimitedToEnd(text, i, open, close) ==
    IF HasAt(text, i, open)
    THEN LET j == Find(text, close, i + Len(open))
         IN  IF j = -1 THEN Len(text) ELSE j + Len(close)
    ELSE -1

\* open.*?close with DOTALL, for literal delimiters
ReDelimited(text, i, open, close) ==
    IF HasAt(text, i, open)
    THEN LET j == Find(text, close, i + Len(open))
         IN  IF j = -1 THEN -1 ELSE j + Len(close)
    ELSE -1

\* \\\(.*?\\\)                                         clean_latex.py:114
ReParenMath(text, i) == ReDelimited(text, i, <<"\\", "(">>, <<"\\", ")">>)

\* \\\[.*?\\\]                                         clean_latex.py:115
ReBracketMath(text, i) == ReDelimited(text, i, <<"\\", "[">>, <<"\\", "]">>)

\* \\begin\{env\}.*\\end\{env\}: the greedy match, up to the last closer
RECURSIVE ReNamedEnvGreedy(_, _, _)
ReNamedEnvGreedy(text, i, k) ==
    IF k > Len(LATEX_ENV_NAMES) THEN -1
    ELSE IF /\ HasAt(text, i, BeginLit(LATEX_ENV_NAMES[k]))
            /\ RFind(text, EndLit(LATEX_ENV_NAMES[k]), Len(text))
                 >= i + Len(BeginLit(LATEX_ENV_NAMES[k]))
         THEN RFind(text, EndLit(LATEX_ENV_NAMES[k]), Len(text))
                + Len(EndLit(LATEX_ENV_NAMES[k]))
         ELSE ReNamedEnvGreedy(text, i, k + 1)

\* \\begin\{env\}.*?\\end\{env\} for the names of LATEX_ENV_NAMES from
\* index k on, in order                                clean_latex.py:117-119
RECURSIVE ReNamedEnv(_, _, _)
ReNamedEnv(text, i, k) ==
    IF k > Len(LATEX_ENV_NAMES) THEN -1
    ELSE LET e == ReDelimited(text, i, BeginLit(LATEX_ENV_NAMES[k]),
                              EndLit(LATEX_ENV_NAMES[k]))
         IN  IF e # -1 THEN e ELSE ReNamedEnv(text, i, k + 1)

\* cmd\{[^}]*\} where cmd is the literal up to and including the brace
ReBraceArg(text, i, cmd) ==
    IF HasAt(text, i, cmd) THEN AfterFirst(text, {"}"}, i + Len(cmd)) ELSE -1

\* \\cite[a-z]*\{[^}]*\}                               clean_latex.py:98
ReCite(text, i) ==
    IF HasAt(text, i, <<"\\", "c", "i", "t", "e">>)
    THEN LET p == ScanWhile(text, LowerLetters, i + 5)
         IN  IF p < Len(text) /\ At(text, p) = "{"
             THEN AfterFirst(text, {"}"}, p + 1) ELSE -1
    ELSE -1

\* \\href\{[^}]*\}\{[^}]*\}                            clean_latex.py:98
ReHref(text, i) ==
    LET e == ReBraceArg(text, i, <<"\\", "h", "r", "e", "f", "{">>)
    IN  IF e # -1 /\ e < Len(text) /\ At(text, e) = "{"
        THEN AfterFirst(text, {"}"}, e + 1) ELSE -1

\* SKIP_COMMANDS in order                              clean_latex.py:97-98
ReSkipCommand(text, i) ==
    LET r == ReBraceArg(text, i, <<"\\", "r", "e", "f", "{">>)
        l == ReBraceArg(text, i, <<"\\", "l", "a", "b", "e", "l", "{">>)
        a == ReBraceArg(text, i, <<"\\", "a", "u", "t", "o", "r", "e", "f", "{">>)
        c == ReCite(text, i)
        u == ReBraceArg(text, i, <<"\\", "u", "r", "l", "{">>)
    IN  IF r # -1 THEN r
        ELSE IF l # -1 THEN l
        ELSE IF a # -1 THEN a
        ELSE IF c # -1 THEN c
        ELSE IF u # -1 THEN u
        ELSE ReHref(text, i)

\* SKIP_RE.match at offset i: the alternatives are tried in the order
\* build_skip_pattern appends them and the first that matches wins;
\* the result is <<end, kind>>, end = -1 for no match   clean_latex.py:101-123
SkipMatchAt(text, i) ==
    LET c  == ReComment(text, i)
        d  == ReCommandDef(text, i)
        f  == ReDef(text, i)
        dd == ReDisplayMath(text, i)
        m  == ReInlineMath(text, i)
        p  == ReParenMath(text, i)
        b  == ReBracketMath(text, i)
        e  == ReNamedEnv(text, i, 1)
        s  == ReSkipCommand(text, i)
    IN  IF c # -1 THEN <<c, "Comment">>
        ELSE IF d # -1 THEN <<d, "CommandDefinition">>
        ELSE IF f # -1 THEN <<f, "CommandDefinition">>
        ELSE IF dd # -1 THEN <<dd, "DisplayMath">>
        ELSE IF m # -1 THEN <<m, "InlineMath">>
        ELSE IF p # -1 THEN <<p, "DelimitedMath">>
        ELSE IF b # -1 THEN <<b, "DelimitedMath">>
        ELSE IF e # -1 THEN <<e, "NamedEnvironment">>
        ELSE IF s # -1 THEN <<s, "Command">>
        ELSE <<-1, "Plain">>

\* the rank of a kind in the order build_skip_pattern appends the patterns:
\* comment, command definition, dollar math, escaped-delimiter math, named
\* environment, skip command                           clean_latex.py:104-121
RulePriority(kind) ==
    CASE kind = "Comment" -> 1
      [] kind = "CommandDefinition" -> 2
      [] kind \in {"DisplayMath", "InlineMath"} -> 3
      [] kind = "DelimitedMath" -> 4
      [] kind = "NamedEnvironment" -> 5
      [] kind = "Command" -> 6

\* a search that returns the offset of a match of the highest-ranked rule,
\* the leftmost of these
SkipSearchByPriority(text, from) ==
    LET at == {i \in from..(Len(text) - 1) : SkipMatchAt(text, i)[1] # -1}
        best == {i \in at : \A j \in at :
                    RulePriority(SkipMatchAt(text, i)[2])
                      <= RulePriority(SkipMatchAt(text, j)[2])}
    IN  IF at = {} THEN -1 ELSE MinOf(best)

\* SKIP_RE.search(text, from): the leftmost offset >= from where SKIP_RE
\* matches, else -1
SkipSearch(text, from) ==
    LET at == {i \in from..(Len(text) - 1) : SkipMatchAt(text, i)[1] # -1}
    IN  IF at = {} THEN -1 ELSE MinOf(at)

\* SKIP_RE.finditer(text) from offset from: the matches left to right, each
\* search resuming where the previous match ended, as records
\* [start, end, kind]                                  clean_latex.py:156
RECURSIVE FindIter(_, _)
FindIter(text, from) ==
    Only({ IF i = -1 THEN <<>>
           ELSE Only({ <<[start |-> i, end |-> m[1], kind |-> m[2]]>>
                       \o FindIter(text, m[1]) :
                       m \in {SkipMatchAt(text, i)} }) :
           i \in {SkipSearch(text, from)} })

----------------------------------------------------------------------------
(* clean_latex.py: the sanitizer                                           *)

\* a key of CHARS at offset i, whatever precedes it
SpecialMatchAtAnywhere(text, i) ==
    At(text, i) \in DOMAIN CHARS

\* the pattern of replace_special_latex_chars matches at offset i:
\* (?<!\\)(key|key|...)                                 clean_latex.py:131-132
SpecialMatchAt(text, i) ==
    /\ At(text, i) \in DOMAIN CHARS
    /\ (i = 0 \/ At(text, i - 1) # BS)

\* replace_special_latex_chars: every match is replaced by CHARS[key],
\* every other character is kept                       clean_latex.py:129-133
replace_special_latex_chars(text) ==
    Join([k \in 1..Len(text) |->
            IF SpecialMatchAt(text, k - 1)
            THEN CHARS[text[k]] ELSE <<text[k]>>])

\* str.replace(char, replacement) for a one-character key
StrReplaceChar(text, char, replacement) ==
    Join([k \in 1..Len(text) |->
            IF text[k] = char THEN replacement ELSE <<text[k]>>])

\* the loop of replace_non_utf8_chars over NON_UTF8_CHARS.items() from
\* index k on                                          clean_latex.py:138-139
RECURSIVE ReplaceNonUtf8From(_, _)
ReplaceNonUtf8From(text, k) ==
    IF k > Len(NON_UTF8_CHARS) THEN text
    ELSE Only({ ReplaceNonUtf8From(replaced, k + 1) :
                replaced \in {StrReplaceChar(text, NON_UTF8_CHARS[k][1],
                                             NON_UTF8_CHARS[k][2])} })

\* replace_non_utf8_chars                              clean_latex.py:136-140
replace_non_utf8_chars(text) == ReplaceNonUtf8From(text, 1)

\* the for loop of process_latex_text_and_math over the matches ms from
\* index k on, with last_end as the loop carries it: for each match the
\* non-math text before it and the match itself, then the remaining text
\* after the last match; each piece as a span [start, end, kind]
\*                                                     clean_latex.py:153-165
RECURSIVE ProcessLoopStaleEnd(_, _, _, _)
ProcessLoopStaleEnd(text, ms, k, last_end) ==
    IF k > Len(ms)
    THEN <<[start |-> last_end, end |-> Len(text), kind |-> "Plain"]>>
    ELSE <<[start |-> last_end, end |-> ms[k].start, kind |-> "Plain"],
           ms[k]>>
         \o ProcessLoopStaleEnd(text, ms, k + 1, ms[k].start)

RECURSIVE ProcessLoop(_, _, _, _)
ProcessLoop(text, ms, k, last_end) ==
    IF k > Len(ms)
    THEN <<[start |-> last_end, end |-> Len(text), kind |-> "Plain"]>>
    ELSE <<[start |-> last_end, end |-> ms[k].start, kind |-> "Plain"],
           ms[k]>>
         \o ProcessLoop(text, ms, k + 1, ms[k].end)

\* the spans process_latex_text_and_math cuts text into
Segments(text) ==
    Only({ProcessLoop(text, ms, 1, 0) : ms \in {FindIter(text, 0)}})

SpanText(text, sp) == Slice(text, sp.start, sp.end)

escape_table_chars_general(text) == replace_special_latex_chars(text)

\* escape_table_chars: every TABLE_CHARS key, no lookbehind
\*                                                     clean_latex.py:169-172
escape_table_chars(text) ==
    Join([k \in 1..Len(text) |->
            IF text[k] \in DOMAIN TABLE_CHARS
            THEN TABLE_CHARS[text[k]] ELSE <<text[k]>>])

IdentityEscaping(x) == replace_special_latex_chars(x)

\* lambda x: x, the default process_math               clean_latex.py:151
Identity(x) == x

\* a call of the function object f, which process_latex_text_and_math
\* receives as process_text or process_math; a function object is
\* written as its name, None as "None"
Call(f, x) ==
    CASE f = "replace_special_latex_chars" -> replace_special_latex_chars(x)
      [] f = "escape_table_chars" -> escape_table_chars(x)
      [] f = "lambda x: x" -> Identity(x)

\* process_latex_text_and_math(text, process_text, process_math)
\*                                                     clean_latex.py:143-166
process_latex_text_and_math(text, process_text, process_math) ==
    LET pt == IF process_text = "None"
              THEN "replace_special_latex_chars" ELSE process_text
        pm == IF process_math = "None" THEN "lambda x: x" ELSE process_math
    IN  Only({ Join([k \in 1..Len(segs) |->
                       IF segs[k].kind = "Plain"
                       THEN Call(pt, SpanText(text, segs[k]))
                       ELSE Call(pm, SpanText(text, segs[k]))]) :
               segs \in {Segments(text)} })

TabularBegin == <<"\\", "b", "e", "g", "i", "n", "{", "t", "a", "b", "u", "l", "a", "r", "}">>
TabularEnd == <<"\\", "e", "n", "d", "{", "t", "a", "b", "u", "l", "a", "r", "}">>

\* the exception of unpacking rest.split(end, 1) when end does not occur
\* after begin
ValueError == <<"ValueError">>

\* escape_special_chars_in_table with its default begin and end
\*                                                     clean_latex.py:175-186
escape_special_chars_in_table(table) ==
    IF Find(table, TabularBegin, 0) = -1 THEN table
    ELSE IF Find(table, TabularEnd, 0) = -1 THEN table
    ELSE Only({
           Only({ IF Find(rest, TabularEnd, 0) = -1 THEN ValueError
                  ELSE Only({ Slice(table, 0, b) \o TabularBegin
                              \o process_latex_text_and_math(
                                     tabular, "escape_table_chars", "None")
                              \o TabularEnd
                              \o Slice(rest,
                                       Find(rest, TabularEnd, 0)
                                       + Len(TabularEnd), Len(rest)) :
                              tabular \in {Slice(rest, 0,
                                                 Find(rest, TabularEnd, 0))} }) :
                  rest \in {Slice(table, b + Len(TabularBegin), Len(table))} }) :
           b \in {Find(table, TabularBegin, 0)} })

\* re.split(r'(\\begin\{tabular\}.*?\\end\{tabular\})', content) from
\* offset from on: the text before each match and the match, then the rest
\*                                                     clean_latex.py:193
RECURSIVE SplitTabular(_, _)
SplitTabular(content, from) ==
    Only({ IF e = -1 THEN <<Slice(content, from, Len(content))>>
           ELSE Only({ <<Slice(content, from, b),
                         Slice(content, b, e + Len(TabularEnd))>>
                       \o SplitTabular(content, e + Len(TabularEnd)) :
                       b \in {Find(content, TabularBegin, from)} }) :
           e \in {IF Find(content, TabularBegin, from) = -1 THEN -1
                  ELSE Find(content, TabularEnd,
                            Find(content, TabularBegin, from)
                            + Len(TabularBegin))} })

\* clean_latex_file(content, tables_only)              clean_latex.py:189-205
clean_latex_file(content, tables_only) ==
    IF tables_only
    THEN Only({ Join([k \in 1..Len(parts) |->
                        IF HasAt(parts[k], 0, TabularBegin)
                        THEN escape_special_chars_in_table(parts[k])
                        ELSE parts[k]]) :
                parts \in {SplitTabular(content, 0)} })
    ELSE Only({ process_latex_text_and_math(cleaned, "None", "None") :
                cleaned \in {replace_non_utf8_chars(content)} })

----------------------------------------------------------------------------
(* Input documents.  A bounded set of documents is every concatenation of  *)
(* at most n pieces, each piece a literal the patterns of the source are   *)
(* sensitive to, together with the example documents of the design.        *)

\* every concatenation of at most n elements of pieces
RECURSIVE Concats(_, _)
Concats(pieces, n) ==
    IF n = 0 THEN {<<>>}
    ELSE LET shorter == Concats(pieces, n - 1)
         IN  shorter \cup {s \o p : s \in shorter, p \in pieces}

MaxCleanPieces == 3

CleanPieces ==
    { <<"$">>, <<"<">>, <<"%">>, <<NL>>, <<BS>>, <<"&">>, <<"u00b2">>,
      TabularBegin, TabularEnd }

\* "50% of cases & 3#items"
ProseExample == 
    <<"5", "0", "%", " ", "o", "f", " ", "c", "a", "s", "e", "s",
      " ", "&", " ", "3", "#", "i", "t", "e", "m", "s">>

\* "50\% of cases \& 3\#items"
ProseEscaped == 
    <<"5", "0", BS, "%", " ", "o", "f", " ", "c", "a", "s", "e", "s",
      " ", BS, "&", " ", "3", BS, "#", "i", "t", "e", "m", "s">>

\* the prose example inside a tabular body, with table-cell characters,
\* a column specification, a comment line and inline math
TabularExample == 
    <<BS, "b", "e", "g", "i", "n", "{", "t", "a", "b", "u", "l", "a",
      "r", "}", "{", "l", "|", "c", "}", " ", "a", "<", "b", " ",
      "&", " ", "3", "#", "i", "t", "e", "m", "s", "=", "1", " ",
      "$", "c", "<", "d", "$", " ", NL, " ", "5", "0", "%", " ",
      "o", "f", " ", "x", ">", "y", " ", NL, " ", "u", "|", "v",
      " ", BS, "e", "n", "d", "{", "t", "a", "b", "u", "l", "a",
      "r", "}", " ", "x", "<", "y">>

CleanExamples ==
    { ProseExample,
      TabularExample,
      <<BS, "n", "e", "w", "c", "o", "m", "m", "a", "n", "d", "{", BS,
      "a", "}", "[", "1", "]", "{", "#", "1", "}", " ", "#">>,
      <<BS, "c", "i", "t", "e", "{", "c", "a", "f", "u00e9", "}", " ",
      "&", " ", BS, "(", "x", "<", "y", BS, ")">>,
      <<BS, "[", "a", "&", "b", BS, "]", " ", BS, "d", "e", "f", BS,
      "f", "#", "1", "{", "#", "1", "}", " ", "_">>,
      <<BS, "b", "e", "g", "i", "n", "{", "f", "i", "g", "u", "r", "e",
      "}", "a", "_", "b", BS, "e", "n", "d", "{", "f", "i", "g",
      "u", "r", "e", "}", " ", BS, "u", "r", "l", "{", "a", "_",
      "b", "}">>,
      <<BS, "h", "r", "e", "f", "{", "a", "#", "b", "}", "{", "c", "_",
      "d", "}", " ", BS, "l", "a", "b", "e", "l", "{", "a", "_",
      "b", "}", " ", BS, "$", "<", BS, "$">>,
      <<"%", " ", "u2013", " ", NL, " ", BS, "r", "e", "f", "{",
      "u00e9", "}", " ", "u2264", " ", "|">> }

CleanDocs == Concats(CleanPieces, MaxCleanPieces) \cup CleanExamples

----------------------------------------------------------------------------
(* The sanitizer as a state machine: an input document is read, then one   *)
(* of the entry points of clean_latex.py is applied to it.                 *)

InitClean ==
    /\ pc = "input"
    /\ doc \in CleanDocs
    /\ files = {}
    /\ spans = <<>>
    /\ out = <<>>
    /\ out2 = <<>>
    /\ fixes = <<>>
    /\ issues = <<>>
    /\ NoRun
    /\ NoBuild

\* process_latex_text_and_math(doc, lambda x: x, lambda x: x)
Segment ==
    /\ pc = "input"
    /\ spans' = Segments(doc)
    /\ out' = process_latex_text_and_math(doc, "lambda x: x", "lambda x: x")
    /\ pc' = "segmented"
    /\ UNCHANGED <<doc, files, out2, fixes, issues, io, build>>

\* process_latex_text_and_math(doc) with the default processors
\*                                                     clean_latex.py:148-151
Escape ==
    /\ pc = "input"
    /\ spans' = Segments(doc)
    /\ out' = process_latex_text_and_math(doc, "None", "None")
    /\ pc' = "escaped"
    /\ UNCHANGED <<doc, files, out2, fixes, issues, io, build>>

\* clean_latex_file(doc)
CleanFull ==
    /\ pc = "input"
    /\ spans' = Segments(replace_non_utf8_chars(doc))
    /\ out' = clean_latex_file(doc, FALSE)
    /\ pc' = "cleaned"
    /\ UNCHANGED <<doc, files, out2, fixes, issues, io, build>>

\* clean_latex_file(doc, tables_only=True)
CleanTables ==
    /\ pc = "input"
    /\ out' = clean_latex_file(doc, TRUE)
    /\ pc' = "tables"
    /\ UNCHANGED <<doc, files, spans, out2, fixes, issues, io, build>>

\* clean_latex_file applied to its own output
CleanAgain ==
    /\ pc = "cleaned"
    /\ out2' = clean_latex_file(out, FALSE)
    /\ pc' = "recleaned"
    /\ UNCHANGED <<doc, files, spans, out, fixes, issues, io, build>>

NextClean == Segment \/ Escape \/ CleanFull \/ CleanTables \/ CleanAgain

SpecClean == InitClean /\ [][NextClean]_vars

----------------------------------------------------------------------------
(* Properties of the sanitizer                                             *)

Protected(segs) == {k \in 1..Len(segs) : segs[k].kind # "Plain"}

\* C1: the spans process_latex_text_and_math cuts a document into are
\* ordered by start, contiguous, non-overlapping and cover [0, len(doc));
\* the protected spans are the SKIP_RE matches and alternate with the
\* Plain spans, no match starts inside a Plain span, and with identity
\* processors the concatenated output is the input.
C1_Partition ==
    pc = "segmented" =>
        /\ Len(spans) >= 1
        /\ spans[1].start = 0
        /\ spans[Len(spans)].end = Len(doc)
        /\ \A k \in 1..Len(spans) : spans[k].start <= spans[k].end
        /\ \A k \in 1..(Len(spans) - 1) : spans[k].end = spans[k + 1].start
        /\ \A k \in 1..Len(spans) :
              IF k % 2 = 0
              THEN /\ spans[k].kind # "Plain"
                   /\ spans[k].start < spans[k].end
                   /\ SkipMatchAt(doc, spans[k].start)[1] = spans[k].end
              ELSE /\ spans[k].kind = "Plain"
                   /\ \A i \in spans[k].start..(spans[k].end - 1) :
                         SkipMatchAt(doc, i)[1] = -1
        /\ out = doc

\* C1 witness: a segmentation with two protected spans and text between
C1_Witness ==
    /\ pc = "segmented"
    /\ Len(spans) >= 5
    /\ spans[3].start < spans[3].end

\* C2 (as claimed): every protected construct the segmenter recognizes in
\* the input occurs, character for character, in the output of
\* clean_latex_file.
C2_Protection ==
    pc = "cleaned" =>
        LET segs == Segments(doc)
        IN  \A k \in Protected(segs) :
               Find(out, SpanText(doc, segs[k]), 0) # -1

\* C3 (as claimed): clean_latex_file applied to its own output returns it
\* unchanged.
C3_Idempotent == pc = "recleaned" => out2 = out

\* C4 (as claimed): the prose example is sanitized to its escaped form.
C4_ProseEscaped == (pc = "cleaned" /\ doc = ProseExample) => out = ProseEscaped

\* the first tabular environment of text: the offsets of its \begin, of
\* its body and of its \end
HasTabular(text) ==
    /\ Find(text, TabularBegin, 0) # -1
    /\ Find(text, TabularEnd,
            Find(text, TabularBegin, 0) + Len(TabularBegin)) # -1
TabularAt(text) == Find(text, TabularBegin, 0)
TabularBody(text) ==
    LET s == TabularAt(text) + Len(TabularBegin)
    IN  Slice(text, s, Find(text, TabularEnd, s))

\* body with every table-cell character replaced by its markup
AllCellsEscaped(body) ==
    Join([k \in 1..Len(body) |->
            IF body[k] \in {"<", ">", "=", "|"}
            THEN TABLE_CHARS[body[k]] ELSE <<body[k]>>])

\* body with the table-cell characters of its Plain spans replaced
PlainCellsEscaped(body) ==
    LET segs == Segments(body)
        plain(i) == \E k \in 1..Len(segs) :
                       /\ segs[k].kind = "Plain"
                       /\ segs[k].start <= i
                       /\ i < segs[k].end
    IN  Join([k \in 1..Len(body) |->
                IF body[k] \in {"<", ">", "=", "|"} /\ plain(k - 1)
                THEN TABLE_CHARS[body[k]] ELSE <<body[k]>>])

\* C5 (as claimed): whenever the sanitizer processes a document, the body
\* of a tabular environment comes out with exactly its '<', '>', '=' and
\* '|' replaced by table-cell markup.
C5_TableCellTable ==
    (pc \in {"cleaned", "tables"} /\ HasTabular(doc)) =>
        Find(out, TabularBegin \o AllCellsEscaped(TabularBody(doc))
                  \o TabularEnd, 0) # -1

\* C5 (amended): in tables-only mode the text before the first tabular
\* environment is unchanged and its body comes out with exactly the '<',
\* '>', '=' and '|' of its Plain spans replaced by table-cell markup;
\* every other character of the body, '%', '&' and '#' included, is kept.
C5_TablesOnlyPlainCells ==
    (pc = "tables" /\ HasTabular(doc)) =>
        /\ Slice(out, 0, TabularAt(doc)) = Slice(doc, 0, TabularAt(doc))
        /\ HasAt(out, TabularAt(doc),
                 TabularBegin \o PlainCellsEscaped(TabularBody(doc))
                 \o TabularEnd)

\* C5 witness: a tabular body with a table-cell character in a Plain span
\* and an '&' has been sanitized in tables-only mode
C5_Witness ==
    /\ pc = "tables"
    /\ HasTabular(doc)
    /\ PlainCellsEscaped(TabularBody(doc)) # TabularBody(doc)
    /\ \E k \in 1..Len(TabularBody(doc)) : TabularBody(doc)[k] = "&"

\* the text span k contributes to the output of the default escape pass
EscapedSpan(k) ==
    IF spans[k].kind = "Plain"
    THEN replace_special_latex_chars(SpanText(doc, spans[k]))
    ELSE SpanText(doc, spans[k])

\* the output offset of span k: the lengths of what the spans before it
\* contribute
RECURSIVE EscapedOffset(_)
EscapedOffset(k) ==
    IF k = 1 THEN 0 ELSE EscapedOffset(k - 1) + Len(EscapedSpan(k - 1))

\* C6: the default escape pass returns every non-Plain span unchanged at
\* its position (shifted by the growth of the Plain spans before it) and
\* every Plain span as replace_special_latex_chars of its text, and
\* nothing else.
C6_EscapeFrame ==
    pc = "escaped" =>
        /\ \A k \in 1..Len(spans) : HasAt(out, EscapedOffset(k), EscapedSpan(k))
        /\ Len(out) = EscapedOffset(Len(spans)) + Len(EscapedSpan(Len(spans)))

\* C6 witness: a protected span holding a special character lies after a
\* Plain span that the pass has changed
C6_Witness ==
    /\ pc = "escaped"
    /\ \E k \in Protected(spans) :
          /\ EscapedOffset(k) > spans[k].start
          /\ \E i \in spans[k].start..(spans[k].end - 1) :
                At(doc, i) \in DOMAIN CHARS

----------------------------------------------------------------------------
(* latex_checker.py and fix_latex_errors.py: environment balance           *)

\* the characters of the alphabet that \w matches in a str pattern
WordChars ==
    Letters \cup Digits
    \cup {"_", "u00e9", "u00e8", "u00fc", "u00f6", "u00e4", "u00b2", "u00b3",
          "u00bc", "u00bd", "u00be"}

\* the characters of the alphabet that str.strip and \s take as whitespace
Whitespace == {" ", NL, "\t", "\r", "u202f"}

BeginKw == <<"\\", "b", "e", "g", "i", "n", "{">>
EndKw == <<"\\", "e", "n", "d", "{">>

\* kw(\w+)\} at offset i: the end offset of the match, else -1
\*                      latex_checker.py:238-239, fix_latex_errors.py:156-157
EnvMatchAt(text, i, kw) ==
    IF HasAt(text, i, kw)
    THEN Only({ IF p > i + Len(kw) /\ p < Len(text) /\ At(text, p) = "}"
                THEN p + 1 ELSE -1 :
                p \in {ScanWhile(text, WordChars, i + Len(kw))} })
    ELSE -1

\* the offsets where re.findall finds kw(\w+)\}; a match holds no
\* backslash after its first character, so no two matches overlap
EnvOffsets(text, kw) ==
    {i \in 0..(Len(text) - 1) : EnvMatchAt(text, i, kw) # -1}

\* group 1 of the match at offset i
EnvName(text, i, kw) == Slice(text, i + Len(kw), EnvMatchAt(text, i, kw) - 1)

\* begin_counts / end_counts: the dictionary name -> number of matches
EnvCounts(text, kw) ==
    Only({ [n \in {EnvName(text, i, kw) : i \in at} |->
              Cardinality({i \in at : EnvName(text, i, kw) = n})] :
           at \in {EnvOffsets(text, kw)} })

\* dict.get(env, 0)
Get(counts, env) == IF env \in DOMAIN counts THEN counts[env] ELSE 0

\* set(list(begin_counts.keys()) + list(end_counts.keys()))
EnvNames(text) == DOMAIN EnvCounts(text, BeginKw) \cup DOMAIN EnvCounts(text, EndKw)

\* the orders in which a for loop may iterate the set S of strings (the
\* iteration order of a set of str depends on the hash seed of the run)
Orders(S) ==
    {o \in [1..Cardinality(S) -> S] :
        \A a, b \in 1..Cardinality(S) : a # b => o[a] # o[b]}

\* the issue the balance check appends for env, as (env, bc, ec)
\*                                                  latex_checker.py:249-250
MismatchIssue(env, bc, ec) == [env |-> env, bc |-> bc, ec |-> ec]

\* the loop of the balance check over the names in the order given, from
\* index k on: fmt_issues                            latex_checker.py:246-250
RECURSIVE BalanceLoop(_, _, _, _)
BalanceLoop(begin_counts, end_counts, order, k) ==
    IF k > Len(order) THEN <<>>
    ELSE (IF Get(begin_counts, order[k]) # Get(end_counts, order[k])
          THEN <<MismatchIssue(order[k], Get(begin_counts, order[k]),
                               Get(end_counts, order[k]))>>
          ELSE <<>>)
         \o BalanceLoop(begin_counts, end_counts, order, k + 1)

\* the balance check of latex_checker.main on tex_content, the set of
\* names iterated in the order given                 latex_checker.py:237-250
fmt_issues(tex_content, order) ==
    Only({ BalanceLoop(bcs, ecs, order, 1) :
           bcs \in {EnvCounts(tex_content, BeginKw)},
           ecs \in {EnvCounts(tex_content, EndKw)} })

\* LatexFix(name, description)                      fix_latex_errors.py:21-29
LatexFix(name, description) ==
    [name |-> name, description |-> description, applied |-> FALSE]

\* str.rstrip()
RStrip(text) ==
    Only({ IF at = {} THEN <<>> ELSE Slice(text, 0, MaxOf(at) + 1) :
           at \in {{j \in 0..(Len(text) - 1) : At(text, j) \notin Whitespace}} })

\* str.lstrip(), the leading half of str.strip()
LStrip(text) ==
    Only({ IF at = {} THEN <<>> ELSE Slice(text, MinOf(at), Len(text)) :
           at \in {{j \in 0..(Len(text) - 1) : At(text, j) \notin Whitespace}} })

AddEndName == <<"a", "d", "d", "_", "e", "n", "d", "_">>
RemoveEndName ==
    <<"r", "e", "m", "o", "v", "e", "_", "e", "n", "d", "_">>
AddedMissing ==
    <<"A", "d", "d", "e", "d", " ", "m", "i", "s", "s", "i", "n", "g", " ">>
RemovedExtra ==
    <<"R", "e", "m", "o", "v", "e", "d", " ", "e", "x", "t", "r", "a", " ">>

\* for _ in range(n): the closer of env is appended to the stripped
\* content; st is [content, fixes]                  fix_latex_errors.py:170-172
RECURSIVE AddEnds(_, _, _)
AddEnds(st, env, n) ==
    IF n <= 0 THEN st
    ELSE Only({ AddEnds(next, env, n - 1) :
                next \in {[content |-> RStrip(st.content) \o <<NL>>
                                      \o EndLit(env) \o <<NL>>,
                          fixes |-> Append(st.fixes,
                                       LatexFix(AddEndName \o env,
                                                AddedMissing \o EndLit(env)))]} })

\* for _ in range(n): the last occurrence of the closer of env is cut out
\*                                                  fix_latex_errors.py:175-179
RECURSIVE RemoveEnds(_, _, _)
RemoveEnds(st, env, n) ==
    IF n <= 0 THEN st
    ELSE Only({ RemoveEnds(
                    IF idx >= 0
                    THEN [content |-> Slice(st.content, 0, idx)
                                      \o Slice(st.content,
                                               idx + Len(EndLit(env)),
                                               Len(st.content)),
                          fixes |-> Append(st.fixes,
                                       LatexFix(RemoveEndName \o env,
                                                RemovedExtra \o EndLit(env)))]
                    ELSE st,
                    env, n - 1) :
                idx \in {RFind(st.content, EndLit(env), Len(st.content))} })

\* the loop of fix_mismatched_environments over the names in the order
\* given, from index k on; the counts are those of the input
\*                                                  fix_latex_errors.py:165-179
RECURSIVE MismatchLoop(_, _, _, _, _)
MismatchLoop(st, begin_counts, end_counts, order, k) ==
    IF k > Len(order) THEN st
    ELSE Only({ MismatchLoop(next, begin_counts, end_counts, order, k + 1) :
                next \in {Only({ IF bc > ec THEN AddEnds(st, order[k], bc - ec)
                                 ELSE IF ec > bc
                                      THEN RemoveEnds(st, order[k], ec - bc)
                                      ELSE st :
                                 bc \in {Get(begin_counts, order[k])},
                                 ec \in {Get(end_counts, order[k])} })} })

\* fix_mismatched_environments(content), the set of names iterated in the
\* order given: [content, fixes]                    fix_latex_errors.py:153-181
fix_mismatched_environments(content, order) ==
    Only({ MismatchLoop([content |-> content, fixes |-> <<>>], bcs, ecs,
                        order, 1) :
           bcs \in {EnvCounts(content, BeginKw)},
           ecs \in {EnvCounts(content, EndKw)} })

----------------------------------------------------------------------------
(* fix_latex_errors.py: fix_html_tags                                      *)

LowerAlphabet ==
    <<"a", "b", "c", "d", "e", "f", "g", "h", "i", "j", "k", "l", "m", "n",
      "o", "p", "q", "r", "s", "t", "u", "v", "w", "x", "y", "z">>
UpperAlphabet ==
    <<"A", "B", "C", "D", "E", "F", "G", "H", "I", "J", "K", "L", "M", "N",
      "O", "P", "Q", "R", "S", "T", "U", "V", "W", "X", "Y", "Z">>

\* the case folding of re.IGNORECASE on the letters of the alphabet
ToLower(c) ==
    IF c \in UpperLetters
    THEN LowerAlphabet[CHOOSE k \in 1..Len(UpperAlphabet) : UpperAlphabet[k] = c]
    ELSE c

\* the lower-case literal lit matches at offset i, ignoring case
HasAtCI(text, i, lit) ==
    /\ i >= 0
    /\ i + Len(lit) <= Len(text)
    /\ \A k \in 1..Len(lit) : ToLower(text[i + k]) = lit[k]

\* the least offset >= from where lit matches ignoring case, else -1
FindCI(text, lit, from) ==
    Only({ IF at = {} THEN -1 ELSE MinOf(at) :
           at \in {{j \in from..(Len(text) - Len(lit)) : HasAtCI(text, j, lit)}} })

\* the fix names of the replacements list, in order  fix_latex_errors.py:133-144
HtmlFixNames ==
    <<"html_bold", "html_italic", "html_emphasis", "html_br", "html_p_open",
      "html_p_close", "html_code", "html_subscript", "html_superscript",
      "html_block">>

\* for the replacements open(.*?)close: the opening tag, the closing tag,
\* and what the replacement puts before and after group 1
HtmlPaired ==
    [n \in {"html_bold", "html_italic", "html_emphasis", "html_code",
            "html_subscript", "html_superscript"} |->
       CASE n = "html_bold" ->
              <<<<"<", "b", ">">>, <<"<", "/", "b", ">">>, <<"\\", "t", "e", "x", "t", "b", "f", "{">>, <<"}">> >>
         [] n = "html_italic" ->
              <<<<"<", "i", ">">>, <<"<", "/", "i", ">">>, <<"\\", "t", "e", "x", "t", "i", "t", "{">>, <<"}">> >>
         [] n = "html_emphasis" ->
              <<<<"<", "e", "m", ">">>, <<"<", "/", "e", "m", ">">>, <<"\\", "e", "m", "p", "h", "{">>, <<"}">> >>
         [] n = "html_code" ->
              <<<<"<", "c", "o", "d", "e", ">">>, <<"<", "/", "c", "o", "d", "e", ">">>, <<"\\", "t", "e", "x", "t", "t", "t", "{">>, <<"}">> >>
         [] n = "html_subscript" ->
              <<<<"<", "s", "u", "b", ">">>, <<"<", "/", "s", "u", "b", ">">>, <<"$", "_", "{">>, <<"}", "$">> >>
         [] n = "html_superscript" ->
              <<<<"<", "s", "u", "p", ">">>, <<"<", "/", "s", "u", "p", ">">>, <<"$", "^", "{">>, <<"}", "$">> >>]

\* the tag names of html_block: div|span|section|h[1-6]
HtmlBlockNames ==
    { <<"d", "i", "v">>, <<"s", "p", "a", "n">>,
      <<"s", "e", "c", "t", "i", "o", "n">>,
      <<"h", "1">>, <<"h", "2">>, <<"h", "3">>, <<"h", "4">>, <<"h", "5">>,
      <<"h", "6">> }

NoMatch == [end |-> -1, repl |-> <<>>]

\* open(.*?)close at offset i, '.' not matching a newline: the lazy group
\* ends at the first close, which must come before the next newline
HtmlPairedAt(text, i, tag) ==
    IF HasAtCI(text, i, tag[1])
    THEN Only({ IF j # -1 /\ j <= ScanTo(text, {NL}, i + Len(tag[1]))
                THEN [end |-> j + Len(tag[2]),
                      repl |-> tag[3] \o Slice(text, i + Len(tag[1]), j)
                               \o tag[4]]
                ELSE NoMatch :
                j \in {FindCI(text, tag[2], i + Len(tag[1]))} })
    ELSE NoMatch

\* <br\s*/?> at offset i, replaced by two backslashes
HtmlBrAt(text, i) ==
    IF HasAtCI(text, i, <<"<", "b", "r">>)
    THEN Only({ IF q < Len(text) /\ At(text, q) = ">"
                THEN [end |-> q + 1, repl |-> <<BS, BS>>] ELSE NoMatch :
                q \in {Only({ IF p < Len(text) /\ At(text, p) = "/"
                              THEN p + 1 ELSE p :
                              p \in {ScanWhile(text, Whitespace, i + 3)} })} })
    ELSE NoMatch

\* a literal tag at offset i
HtmlLiteralAt(text, i, lit, repl) ==
    IF HasAtCI(text, i, lit) THEN [end |-> i + Len(lit), repl |-> repl]
    ELSE NoMatch

\* </?(div|span|section|h[1-6])[^>]*> at offset i, replaced by nothing
HtmlBlockAt(text, i) ==
    IF At(text, i) = "<"
    THEN Only({ IF \E kw \in HtmlBlockNames : HasAtCI(text, p, kw)
                THEN Only({ IF e # -1 THEN [end |-> e, repl |-> <<>>]
                            ELSE NoMatch :
                            e \in {AfterFirst(text, {">"},
                                     p + Len(CHOOSE kw \in HtmlBlockNames :
                                               HasAtCI(text, p, kw)))} })
                ELSE NoMatch :
                p \in {IF i + 1 < Len(text) /\ At(text, i + 1) = "/"
                       THEN i + 2 ELSE i + 1} })
    ELSE NoMatch

\* the pattern of the replacement fix_name at offset i: the end of the
\* match and the text that replaces it               fix_latex_errors.py:133-144
HtmlMatchAt(text, i, fix_name) ==
    CASE fix_name \in DOMAIN HtmlPaired ->
           HtmlPairedAt(text, i, HtmlPaired[fix_name])
      [] fix_name = "html_br" -> HtmlBrAt(text, i)
      [] fix_name = "html_p_open" ->
           HtmlLiteralAt(text, i, <<"<", "p", ">">>, <<NL, NL>>)
      [] fix_name = "html_p_close" ->
           HtmlLiteralAt(text, i, <<"<", "/", "p", ">">>, <<>>)
      [] fix_name = "html_block" -> HtmlBlockAt(text, i)

\* re.finditer(pattern, content, re.IGNORECASE) from offset from on
\*                                                  fix_latex_errors.py:146
RECURSIVE HtmlFindIter(_, _, _)
HtmlFindIter(text, fix_name, from) ==
    Only({ IF at = {} THEN <<>>
           ELSE Only({ <<[start |-> MinOf(at), end |-> m.end, repl |-> m.repl]>>
                       \o HtmlFindIter(text, fix_name, m.end) :
                       m \in {HtmlMatchAt(text, MinOf(at), fix_name)} }) :
           at \in {{i \in from..(Len(text) - 1) :
                      HtmlMatchAt(text, i, fix_name).end # -1}} })

\* re.sub(pattern, repl, content): the text between the matches ms kept,
\* each match replaced                              fix_latex_errors.py:149
HtmlSub(text, ms) ==
    Join([k \in 1..(2 * Len(ms) + 1) |->
            IF k % 2 = 0 THEN ms[k \div 2].repl
            ELSE Slice(text,
                       IF k = 1 THEN 0 ELSE ms[(k - 1) \div 2].end,
                       IF k = 2 * Len(ms) + 1 THEN Len(text)
                       ELSE ms[(k + 1) \div 2].start)])

\* the loop of fix_html_tags over the replacements from index k on; st is
\* [content, fixes]                                 fix_latex_errors.py:145-149
RECURSIVE HtmlLoop(_, _)
HtmlLoop(st, k) ==
    IF k > Len(HtmlFixNames) THEN st
    ELSE Only({ HtmlLoop(
                    IF ms # <<>>
                    THEN [content |-> HtmlSub(st.content, ms),
                          fixes |-> Append(st.fixes,
                                       LatexFix(HtmlFixNames[k],
                                                <<"Replaced", Len(ms), "HTML",
                                                  HtmlFixNames[k], "tags">>))]
                    ELSE st,
                    k + 1) :
                ms \in {HtmlFindIter(st.content, HtmlFixNames[k], 0)} })

\* fix_html_tags(content): [content, fixes]         fix_latex_errors.py:130-150
fix_html_tags(content) == HtmlLoop([content |-> content, fixes |-> <<>>], 1)

----------------------------------------------------------------------------
(* fix_latex_errors.py: fix_missing_figures                                *)

IncludeKw == <<"\\", "i", "n", "c", "l", "u", "d", "e", "g", "r", "a", "p", "h", "i", "c", "s">>

\* the extensions tried after the literal path       fix_latex_errors.py:203
FigureExts ==
    << <<".", "p", "n", "g">>, <<".", "p", "d", "f">>, <<".", "j", "p", "g">>,
       <<".", "j", "p", "e", "g">>, <<".", "e", "p", "s">> >>

\* '% FIXME: missing file - '                        fix_latex_errors.py:215
FixmeMarker == 
    <<"%", " ", "F", "I", "X", "M", "E", ":", " ", "m", "i", "s", "s", "i", "n", "g", " ", "f", "i", "l", "e", " ", "-", " ">>

CommentMissingFigure == "comment_missing_figure"

\* \{([^}]+)\} at offset p: the end offset of the match, else -1
BraceGroupAt(text, p) ==
    IF p < Len(text) /\ At(text, p) = "{"
    THEN Only({ IF q < Len(text) /\ q > p + 1 THEN q + 1 ELSE -1 :
                q \in {ScanTo(text, {"}"}, p + 1)} })
    ELSE -1

\* \\includegraphics(?:\[.*?\])?\{([^}]+)\} at offset i: the offset of the
\* brace group of the match, else -1.  The optional group is tried first:
\* its lazy body stops at the first ']' of the line that a brace group
\* follows; without a '[' the brace group follows the command name
\*                                                  fix_latex_errors.py:196
FigBraceAt(text, i) ==
    IF HasAt(text, i, IncludeKw)
    THEN Only({ IF p < Len(text) /\ At(text, p) = "["
                THEN Only({ IF at = {} THEN -1 ELSE MinOf(at) + 1 :
                            at \in {{j \in (p + 1)..(ScanTo(text, {NL}, p + 1) - 1) :
                                       /\ At(text, j) = "]"
                                       /\ BraceGroupAt(text, j + 1) # -1}} })
                ELSE IF BraceGroupAt(text, p) # -1 THEN p ELSE -1 :
                p \in {i + Len(IncludeKw)} })
    ELSE -1

\* re.finditer of the pattern over text from offset from on, each match
\* as [start, end, path], path being group 1        fix_latex_errors.py:196
RECURSIVE FigIter(_, _)
FigIter(text, from) ==
    Only({ IF at = {} THEN <<>>
           ELSE Only({ <<[start |-> MinOf(at),
                          end |-> BraceGroupAt(text, b),
                          path |-> Slice(text, b + 1,
                                         BraceGroupAt(text, b) - 1)]>>
                       \o FigIter(text, BraceGroupAt(text, b)) :
                       b \in {FigBraceAt(text, MinOf(at))} }) :
           at \in {{i \in from..(Len(text) - 1) : FigBraceAt(text, i) # -1}} })

\* found: os.path.exists of the path or of the path with an extension;
\* existing is the set of paths that exist, relative to tex_dir
\*                                                  fix_latex_errors.py:198-206
FigureFound(fig_path, existing) ==
    \/ fig_path \in existing
    \/ \E k \in 1..Len(FigureExts) : fig_path \o FigureExts[k] \in existing

\* str.strip()
Strip(text) == LStrip(RStrip(text))

\* the body of the loop for one match m whose file was not found: the line
\* of the current content around the offsets of m is commented unless it
\* starts with '%'; st is [content, fixes]          fix_latex_errors.py:207-217
CommentLine(st, m) ==
    Only({ IF ~HasAt(Strip(Slice(st.content, line_start, line_end)), 0, <<"%">>)
           THEN [content |-> Slice(st.content, 0, line_start) \o FixmeMarker
                             \o Slice(st.content, line_start, line_end)
                             \o Slice(st.content, line_end, Len(st.content)),
                 fixes |-> Append(st.fixes,
                              LatexFix(CommentMissingFigure,
                                       <<"Commented out missing figure: ",
                                         m.path>>))]
           ELSE st :
           line_start \in {RFind(st.content, <<NL>>, m.start) + 1},
           line_end \in {IF Find(st.content, <<NL>>, m.end) = -1
                         THEN Len(st.content)
                         ELSE Find(st.content, <<NL>>, m.end)} })

\* the loop of fix_missing_figures over the matches ms of the input from
\* index k on                                       fix_latex_errors.py:196-217
RECURSIVE FigLoop(_, _, _, _)
FigLoop(st, ms, k, existing) ==
    IF k > Len(ms) THEN st
    ELSE Only({ FigLoop(next, ms, k + 1, existing) :
                next \in {IF FigureFound(ms[k].path, existing) THEN st
                          ELSE CommentLine(st, ms[k])} })

\* fix_missing_figures(content, tex_dir): [content, fixes]
\*                                                  fix_latex_errors.py:193-218
fix_missing_figures(content, existing) ==
    Only({ FigLoop([content |-> content, fixes |-> <<>>], ms, 1, existing) :
           ms \in {FigIter(content, 0)} })

fix_missing_math_mode_escaping(content) ==
    [content |-> replace_special_latex_chars(content), fixes |-> <<>>]

\* fix_missing_math_mode(content): [content, fixes] fix_latex_errors.py:184-190
fix_missing_math_mode(content) == [content |-> content, fixes |-> <<>>]

\* the passes of fix_latex_errors.main in their order, the names of the
\* mismatch pass iterated in the order given: [content, fixes]
\*                                                  fix_latex_errors.py:263-276
ApplyFixes(content, existing, order) ==
    Only({ Only({ Only({ Only({
        [content |-> g.content,
         fixes |-> h.fixes \o m.fixes \o f.fixes \o g.fixes] :
        g \in {fix_missing_math_mode(f.content)} }) :
        f \in {fix_missing_figures(m.content, existing)} }) :
        m \in {fix_mismatched_environments(h.content, order)} }) :
        h \in {fix_html_tags(content)} })

----------------------------------------------------------------------------
(* The balance check and the mismatch repair as a state machine: a         *)
(* document is read, then it is checked, or repaired and checked again.    *)

MaxBalancePieces == 3

BalancePieces ==
    { BeginLit(<<"a">>), EndLit(<<"a">>), BeginLit(<<"b">>), EndLit(<<"b">>),
      EndKw, <<"b", "}">>, BeginLit(<<"e", "q", "u", "a", "t", "i", "o", "n", "*">>), <<NL>> }

\* two \begin{figure} and one \end{figure}
FigureExample ==
    BeginLit(<<"f", "i", "g", "u", "r", "e">>) \o BeginLit(<<"f", "i", "g", "u", "r", "e">>) \o EndLit(<<"f", "i", "g", "u", "r", "e">>)

\* one unmatched \begin{equation}
EquationExample == BeginLit(<<"e", "q", "u", "a", "t", "i", "o", "n">>)

BalanceDocs ==
    Concats(BalancePieces, MaxBalancePieces)
    \cup {FigureExample, EquationExample}

InitBalance ==
    /\ pc = "input"
    /\ doc \in BalanceDocs
    /\ files = {}
    /\ spans = <<>>
    /\ out = <<>>
    /\ out2 = <<>>
    /\ fixes = <<>>
    /\ issues = <<>>
    /\ NoRun
    /\ NoBuild

\* the balance check of latex_checker.main on the document
CheckBalance ==
    /\ pc = "input"
    /\ \E order \in Orders(EnvNames(doc)) : issues' = fmt_issues(doc, order)
    /\ pc' = "checked"
    /\ UNCHANGED <<doc, files, spans, out, out2, fixes, io, build>>

\* content, fixes = fix_mismatched_environments(content)
FixMismatched ==
    /\ pc = "input"
    /\ \E order \in Orders(EnvNames(doc)) :
          /\ out' = fix_mismatched_environments(doc, order).content
          /\ fixes' = fix_mismatched_environments(doc, order).fixes
    /\ pc' = "mismatched"
    /\ UNCHANGED <<doc, files, spans, out2, issues, io, build>>

\* the balance check on the repaired document
Recheck ==
    /\ pc = "mismatched"
    /\ \E order \in Orders(EnvNames(out)) : issues' = fmt_issues(out, order)
    /\ pc' = "rechecked"
    /\ UNCHANGED <<doc, files, spans, out, out2, fixes, io, build>>

NextBalance == CheckBalance \/ FixMismatched \/ Recheck

SpecBalance == InitBalance /\ [][NextBalance]_vars

----------------------------------------------------------------------------
(* The repair passes of fix_latex_errors.main as a state machine: a        *)
(* document is read next to a set of existing files, then one pass is      *)
(* applied to it.                                                          *)

MaxRepairPieces == 3

RepairPieces ==
    { <<"\\", "i", "n", "c", "l", "u", "d", "e", "g", "r", "a", "p", "h", "i", "c", "s", "{", "a", "}">>,
      <<"\\", "i", "n", "c", "l", "u", "d", "e", "g", "r", "a", "p", "h", "i", "c", "s", "[", "w", "]", "{", "b", "}">>,
      <<NL>>, <<"%", " ">>, <<"$">>, <<"<", "b", ">">>, <<"<", "/", "b", ">">>,
      <<"<", "p", ">">>, BeginLit(<<"f", "i", "g", "u", "r", "e">>), EndLit(<<"f", "i", "g", "u", "r", "e">>) }

\* a figure environment holding \includegraphics{plots/fig1} on a line of
\* its own
FigureEnvExample ==
    BeginLit(<<"f", "i", "g", "u", "r", "e">>) \o <<NL>>
    \o <<"\\", "i", "n", "c", "l", "u", "d", "e", "g", "r", "a", "p", "h", "i", "c", "s", "{", "p", "l", "o", "t", "s", "/", "f", "i", "g", "1", "}">>
    \o <<NL>> \o EndLit(<<"f", "i", "g", "u", "r", "e">>)

\* "<b><b>x</b></b>": bold tags nested in bold tags
NestedBoldExample ==
    <<"<", "b", ">", "<", "b", ">", "x", "<", "/", "b", ">",
      "<", "/", "b", ">">>

\* "<</p>b>x</b>": a closing paragraph tag inside an opening bold tag
ExposedBoldExample ==
    <<"<", "<", "/", "p", ">", "b", ">", "x", "<", "/", "b", ">">>

\* "\includegraphics{a}", "\caption{results of run}" and
\* "\includegraphics{a}" on three lines
CaptionBetweenExample ==
    IncludeKw \o <<"{", "a", "}", NL>>
    \o <<"\\", "c", "a", "p", "t", "i", "o", "n", "{", "r", "e", "s", "u", "l",
         "t", "s", " ", "o", "f", " ", "r", "u", "n", "}", NL>>
    \o IncludeKw \o <<"{", "a", "}">>

RepairDocs ==
    Concats(RepairPieces, MaxRepairPieces)
    \cup {FigureEnvExample, NestedBoldExample, ExposedBoldExample,
          CaptionBetweenExample}

\* the directory of the document holds no figure, or b.png
ExistingChoices == { {}, {<<"b", ".", "p", "n", "g">>} }

InitRepair ==
    /\ pc = "input"
    /\ doc \in RepairDocs
    /\ files \in ExistingChoices
    /\ spans = <<>>
    /\ out = <<>>
    /\ out2 = <<>>
    /\ fixes = <<>>
    /\ issues = <<>>
    /\ NoRun
    /\ NoBuild

\* content, fixes = fix_html_tags(content)
FixHtml ==
    /\ pc = "input"
    /\ out' = fix_html_tags(doc).content
    /\ fixes' = fix_html_tags(doc).fixes
    /\ pc' = "html"
    /\ UNCHANGED <<doc, files, spans, out2, issues, io, build>>

\* content, fixes = fix_missing_figures(content, tex_dir)
FixFigures ==
    /\ pc = "input"
    /\ out' = fix_missing_figures(doc, files).content
    /\ fixes' = fix_missing_figures(doc, files).fixes
    /\ pc' = "figures"
    /\ UNCHANGED <<doc, files, spans, out2, issues, io, build>>

NextRepair == FixHtml \/ FixMismatched \/ FixFigures

SpecRepair == InitRepair /\ [][NextRepair]_vars

----------------------------------------------------------------------------
(* Properties of the balance check and of the repair passes                *)

\* the number of offsets of text where the literal occurs
Occurrences(text, lit) ==
    Cardinality({i \in 0..(Len(text) - 1) : HasAt(text, i, lit)})

\* the brace contents that are environment names: non-empty, without
\* brace, backslash or whitespace
IsEnvName(n) ==
    /\ n # <<>>
    /\ \A k \in 1..Len(n) : n[k] \notin ({"{", "}", BS} \cup Whitespace)

\* the environment names a document delimits: the brace contents after
\* its \begin{ and \end{
DelimitedNames(text) ==
    {n \in {Slice(text, i + Len(kw), ScanTo(text, {"}"}, i + Len(kw))) :
              i \in 0..(Len(text) - 1), kw \in {BeginKw, EndKw}} :
        /\ IsEnvName(n)
        /\ Occurrences(text, BeginLit(n)) + Occurrences(text, EndLit(n)) > 0}

AbsDiff(a, b) == IF a > b THEN a - b ELSE b - a

\* the sum over the names S of |begin count - end count| in text
RECURSIVE SumImbalance(_, _)
SumImbalance(text, S) ==
    IF S = {} THEN 0
    ELSE LET n == CHOOSE x \in S : TRUE
         IN  AbsDiff(Occurrences(text, BeginLit(n)),
                     Occurrences(text, EndLit(n)))
             + SumImbalance(text, S \ {n})

\* C7 (as claimed): the balance check emits exactly one finding for an
\* environment name n, carrying the begin count and the end count, if and
\* only if the number of \begin{n} differs from the number of \end{n}, and
\* no finding for any other name.
C7_OneFindingPerImbalance ==
    pc = "checked" =>
        /\ \A n \in DelimitedNames(doc) :
              LET bc == Occurrences(doc, BeginLit(n))
                  ec == Occurrences(doc, EndLit(n))
                  found == {k \in 1..Len(issues) : issues[k].env = n}
              IN  IF bc # ec
                  THEN /\ Cardinality(found) = 1
                       /\ \A k \in found : issues[k].bc = bc /\ issues[k].ec = ec
                  ELSE found = {}
        /\ \A k \in 1..Len(issues) : issues[k].env \in DelimitedNames(doc)

\* C8 (as claimed): after one run of fix_mismatched_environments the
\* balance check on the result reports no imbalance, the number of Fixes
\* is the sum over the names of |begin count - end count| of the input,
\* and one unmatched \begin{equation} gains exactly one appended
\* \end{equation}.
C8_RepairBalances ==
    pc = "rechecked" =>
        /\ issues = <<>>
        /\ \A n \in DelimitedNames(out) :
              Occurrences(out, BeginLit(n)) = Occurrences(out, EndLit(n))
        /\ Len(fixes) = SumImbalance(doc, DelimitedNames(doc))
        /\ doc = EquationExample =>
              out = EquationExample \o <<NL>> \o EndLit(<<"e", "q", "u", "a", "t", "i", "o", "n">>) \o <<NL>>

\* the number of the line that holds offset i, from 1
LineOf(text, i) == Cardinality({j \in 0..(i - 1) : At(text, j) = NL}) + 1

\* the number of lines of text
LineCount(text) == LineOf(text, Len(text))

\* line n of text, without its newline
Line(text, n) ==
    LET at == {i \in 0..Len(text) : LineOf(text, i) = n}
    IN  Slice(text, MinOf(at), MaxOf(at))

\* the matches of the \includegraphics pattern whose file is missing and
\* whose line is not commented, as indices into FigIter(text, 0)
MissingFigures(text, existing) ==
    LET ms == FigIter(text, 0)
    IN  {k \in 1..Len(ms) :
           /\ ~FigureFound(ms[k].path, existing)
           /\ ~HasAt(Strip(Line(text, LineOf(text, ms[k].start))), 0, <<"%">>)}

\* C9 (as claimed): after fix_missing_figures every line with a missing,
\* uncommented \includegraphics is the original line prefixed by the
\* comment marker, one Fix is recorded per missing figure, and a figure
\* whose file exists produces no Fix.
C9_MissingFiguresCommented ==
    pc = "figures" =>
        LET ms == FigIter(doc, 0)
            missing == MissingFigures(doc, files)
        IN  /\ LineCount(out) = LineCount(doc)
            /\ \A k \in missing :
                  Line(out, LineOf(doc, ms[k].start))
                    = FixmeMarker \o Line(doc, LineOf(doc, ms[k].start))
            /\ Len(fixes) = Cardinality(missing)
            /\ \A f \in 1..Len(fixes) :
                  \E k \in missing :
                     fixes[f].description[2] = ms[k].path

\* C10 (as claimed): the content of every protected span of the input
\* occurs unchanged in the document a repair pass returns.
C10_RepairKeepsProtected ==
    pc \in {"html", "mismatched", "figures"} =>
        LET segs == Segments(doc)
        IN  \A k \in Protected(segs) :
               Find(out, SpanText(doc, segs[k]), 0) # -1

----------------------------------------------------------------------------
(* fix_latex_errors.py: parse_errors                                       *)

\* lit in text
Contains(text, lit) == Find(text, lit, 0) # -1

\* text.split("\n")
SplitLines(text) == [n \in 1..LineCount(text) |-> Line(text, n)]

\* int(digits) for a string of decimal digits
RECURSIVE ParseInt(_)
ParseInt(digits) ==
    IF digits = <<>> THEN 0
    ELSE 10 * ParseInt(SubSeq(digits, 1, Len(digits) - 1))
         + (CHOOSE v \in 0..9 :
              <<"0", "1", "2", "3", "4", "5", "6", "7", "8", "9">>[v + 1]
                = digits[Len(digits)])

\* "line_num": None, written as an integer no \d+ denotes
NoLineNum == -1

\* re.search(r"l\.(\d+)", ctx): group 1 as an integer, None without a match
LineNumberIn(ctx) ==
    Only({ IF at = {} THEN NoLineNum
           ELSE ParseInt(Slice(ctx, MinOf(at) + 2,
                               ScanWhile(ctx, Digits, MinOf(at) + 2))) :
           at \in {{i \in 0..(Len(ctx) - 3) :
                      /\ HasAt(ctx, i, <<"l", ".">>)
                      /\ At(ctx, i + 2) \in Digits}} })

\* the line number of the first context line that holds one
\*                                                  fix_latex_errors.py:43-47
RECURSIVE FirstLineNumber(_, _)
FirstLineNumber(context, k) ==
    IF k > Len(context) THEN NoLineNum
    ELSE IF LineNumberIn(context[k]) # NoLineNum THEN LineNumberIn(context[k])
    ELSE FirstLineNumber(context, k + 1)

\* the classification with the alignment-tab phrasing tested first
ClassifyErrorTabFirst(msg) ==
    IF Contains(msg, <<"M", "i", "s", "p", "l", "a", "c", "e", "d", " ", "a", "l", "i", "g", "n", "m", "e", "n", "t", " ", "t", "a", "b">>)
    THEN "misplaced_tab"
    ELSE IF Contains(msg, <<"U", "n", "d", "e", "f", "i", "n", "e", "d", " ", "c", "o", "n", "t", "r", "o", "l", " ", "s", "e", "q", "u", "e", "n", "c", "e">>)
    THEN "undefined_command"
    ELSE IF Contains(msg, <<"M", "i", "s", "s", "i", "n", "g", " ", "$", " ", "i", "n", "s", "e", "r", "t", "e", "d">>)
    THEN "missing_math"
    ELSE IF \/ Contains(msg, <<"M", "i", "s", "s", "i", "n", "g", " ", "}", " ", "i", "n", "s", "e", "r", "t", "e", "d">>)
            \/ Contains(msg, <<"M", "i", "s", "s", "i", "n", "g", " ", "{", " ", "i", "n", "s", "e", "r", "t", "e", "d">>)
    THEN "missing_brace"
    ELSE IF /\ Contains(msg, <<"E", "n", "v", "i", "r", "o", "n", "m", "e", "n", "t">>)
            /\ Contains(msg, <<"u", "n", "d", "e", "f", "i", "n", "e", "d">>)
    THEN "undefined_env"
    ELSE IF /\ Contains(msg, <<"F", "i", "l", "e">>)
            /\ Contains(msg, <<"n", "o", "t", " ", "f", "o", "u", "n", "d">>)
    THEN "missing_file"
    ELSE "other"

\* the type of an error message                     fix_latex_errors.py:49-63
ClassifyError(msg) ==
    IF Contains(msg, <<"U", "n", "d", "e", "f", "i", "n", "e", "d", " ", "c", "o", "n", "t", "r", "o", "l", " ", "s", "e", "q", "u", "e", "n", "c", "e">>)
    THEN "undefined_command"
    ELSE IF Contains(msg, <<"M", "i", "s", "s", "i", "n", "g", " ", "$", " ", "i", "n", "s", "e", "r", "t", "e", "d">>)
    THEN "missing_math"
    ELSE IF \/ Contains(msg, <<"M", "i", "s", "s", "i", "n", "g", " ", "}", " ", "i", "n", "s", "e", "r", "t", "e", "d">>)
            \/ Contains(msg, <<"M", "i", "s", "s", "i", "n", "g", " ", "{", " ", "i", "n", "s", "e", "r", "t", "e", "d">>)
    THEN "missing_brace"
    ELSE IF /\ Contains(msg, <<"E", "n", "v", "i", "r", "o", "n", "m", "e", "n", "t">>)
            /\ Contains(msg, <<"u", "n", "d", "e", "f", "i", "n", "e", "d">>)
    THEN "undefined_env"
    ELSE IF /\ Contains(msg, <<"F", "i", "l", "e">>)
            /\ Contains(msg, <<"n", "o", "t", " ", "f", "o", "u", "n", "d">>)
    THEN "missing_file"
    ELSE IF Contains(msg, <<"M", "i", "s", "p", "l", "a", "c", "e", "d", " ", "a", "l", "i", "g", "n", "m", "e", "n", "t", " ", "t", "a", "b">>)
    THEN "misplaced_tab"
    ELSE "other"

\* the error of a line, its message being the whole line
ErrorAtWholeLine(lines, i) ==
    Only({ [message |-> lines[i],
            context |-> context,
            line_num |-> FirstLineNumber(context, 1),
            type |-> ClassifyError(lines[i])] :
           context \in {SubSeq(lines, i + 1, Min(i + 5, Len(lines)))} })

\* the error of the line at index i of lines, which starts with "! "
\*                                                  fix_latex_errors.py:38-64
ErrorAt(lines, i) ==
    Only({ [message |-> Slice(lines[i], 2, Len(lines[i])),
            context |-> context,
            line_num |-> FirstLineNumber(context, 1),
            type |-> ClassifyError(Slice(lines[i], 2, Len(lines[i])))] :
           context \in {SubSeq(lines, i + 1, Min(i + 5, Len(lines)))} })

\* re.search(r"`([^']+)'", line): group 1, "" without a match
QuotedKey(line) ==
    Only({ IF at = {} THEN <<>>
           ELSE Slice(line, MinOf(at) + 1,
                      ScanTo(line, {"u0027"}, MinOf(at) + 1)) :
           at \in {{j \in 0..(Len(line) - 1) :
                      /\ At(line, j) = "u0060"
                      /\ ScanTo(line, {"u0027"}, j + 1) < Len(line)
                      /\ ScanTo(line, {"u0027"}, j + 1) > j + 1}} })

\* the warning of a line, as a list of at most one entry
\*                                                  fix_latex_errors.py:67-77
WarningsOf(line) ==
    IF Contains(line, <<"C", "i", "t", "a", "t", "i", "o", "n">>)
       /\ Contains(line, <<"u", "n", "d", "e", "f", "i", "n", "e", "d">>)
    THEN <<[message |-> Strip(line), type |-> "undefined_citation",
            context |-> <<>>, line_num |-> NoLineNum, key |-> QuotedKey(line)]>>
    ELSE IF Contains(line, <<"R", "e", "f", "e", "r", "e", "n", "c", "e">>)
            /\ Contains(line, <<"u", "n", "d", "e", "f", "i", "n", "e", "d">>)
    THEN <<[message |-> Strip(line), type |-> "undefined_reference",
            context |-> <<>>, line_num |-> NoLineNum, key |-> QuotedKey(line)]>>
    ELSE <<>>

\* parse_errors(log_content): the errors of the lines that start with
\* "! ", in order, then the warnings of all lines, in order
\*                                                  fix_latex_errors.py:32-79
parse_errors(log_content) ==
    Only({ Join([i \in 1..Len(lines) |->
                   IF HasAt(lines[i], 0, <<"!", " ">>)
                   THEN <<ErrorAt(lines, i)>> ELSE <<>>])
           \o Join([i \in 1..Len(lines) |-> WarningsOf(lines[i])]) :
           lines \in {SplitLines(log_content)} })

----------------------------------------------------------------------------
(* fix_latex_errors.py: main, one action per step.  A file named on the    *)
(* command line is absent, unreadable (open raises) or readable.           *)

MaxMainPieces == 2

MainPieces ==
    { <<"a", "_", "b">>, <<"<", "p", ">">>, BeginLit(<<"a">>),
      <<"\\", "i", "n", "c", "l", "u", "d", "e", "g", "r", "a", "p", "h", "i", "c", "s", "[", "w", "]", "{", "b", "}">> }

\* "\begin{a}\begin{b}": two names without closer
TwoOpenersExample == BeginLit(<<"a">>) \o BeginLit(<<"b">>)

MainDocs == Concats(MainPieces, MaxMainPieces) \cup {TwoOpenersExample}

\* "! Undefined control sequence." followed by a context line
LogExample ==
    <<"!", " ", "U", "n", "d", "e", "f", "i", "n", "e", "d", " ", "c", "o", "n", "t", "r", "o", "l", " ", "s", "e", "q", "u", "e", "n", "c", "e", ".", "\n", "l", ".", "1", "2", " ", "\\", "f", "o", "o">>

FileStates == {"absent", "unreadable", "readable"}

\* --tex is required; --log names a log file or is None; --auto-detect,
\* --dry-run are flags; --output names a file or is None
\*                                                  fix_latex_errors.py:231-237
ArgChoices ==
    [log : {None, "paper.log"}, auto_detect : BOOLEAN, dry_run : BOOLEAN,
     output : {None, "fixed.tex"}]

\* the exception an open() of an unreadable file raises out of main
PermissionError == <<"Traceback", "PermissionError">>

InitMain ==
    /\ pc = "main"
    /\ doc \in MainDocs
    /\ files \in ExistingChoices
    /\ args \in ArgChoices
    /\ fs \in [tex : FileStates, log : FileStates]
    /\ log = <<>>
    /\ spans = <<>>
    /\ out = <<>>
    /\ out2 = <<>>
    /\ fixes = <<>>
    /\ issues = <<>>
    /\ stdout = <<>>
    /\ stderr = <<>>
    /\ outfile = <<>>
    /\ status = <<>>
    /\ NoBuild

\* if not os.path.exists(args.tex): report and exit 1
\*                                                  fix_latex_errors.py:239-241
TexMissing ==
    /\ pc = "main"
    /\ fs.tex = "absent"
    /\ stderr' = Append(stderr, <<"Error: ", "paper.tex", " not found">>)
    /\ status' = <<1>>
    /\ pc' = "exit"
    /\ UNCHANGED <<build, doc, files, spans, out, out2, fixes, issues, args, fs, log,
                   stdout, outfile>>

\* with open(args.tex) as f: content = f.read()     fix_latex_errors.py:243-244
ReadTex ==
    /\ pc = "main"
    /\ fs.tex # "absent"
    /\ IF fs.tex = "unreadable"
       THEN /\ stderr' = Append(stderr, PermissionError)
            /\ status' = <<1>>
            /\ pc' = "exit"
            /\ out' = out
       ELSE /\ out' = doc
            /\ pc' = "log"
            /\ UNCHANGED <<stderr, status>>
    /\ UNCHANGED <<build, doc, files, spans, out2, fixes, issues, args, fs, log,
                   stdout, outfile>>

\* auto_detect_log(tex_file): base + ".log" when it exists, else None
\*                                                  fix_latex_errors.py:221-227
auto_detect_log(exists) == IF exists THEN "paper.log" ELSE None

\* log_file: args.log, or the detected log with --auto-detect
\*                                                  fix_latex_errors.py:250-252
LogFile ==
    IF args.log = None /\ args.auto_detect
    THEN auto_detect_log(fs.log # "absent")
    ELSE args.log

\* if log_file and os.path.exists(log_file): log_content = f.read()
\*                                                  fix_latex_errors.py:249-255
LoadLog ==
    /\ pc = "log"
    /\ IF LogFile # None /\ fs.log = "unreadable"
       THEN /\ stderr' = Append(stderr, PermissionError)
            /\ status' = <<1>>
            /\ pc' = "exit"
            /\ log' = log
       ELSE /\ log' = IF LogFile # None /\ fs.log = "readable"
                      THEN LogExample ELSE <<>>
            /\ pc' = "parse"
            /\ UNCHANGED <<stderr, status>>
    /\ UNCHANGED <<build, doc, files, spans, out, out2, fixes, issues, args, fs,
                   stdout, outfile>>

\* errors = parse_errors(log_content) if log_content else [], and the
\* summary of at most ten of them on stderr         fix_latex_errors.py:257-261
ParseLog ==
    /\ pc = "parse"
    /\ issues' = IF log # <<>> THEN parse_errors(log) ELSE <<>>
    /\ stderr' = IF issues' # <<>>
                 THEN stderr \o <<<<"Found ", Len(issues'), " errors/warnings in log">>>>
                      \o [k \in 1..Min(Len(issues'), 10) |->
                            <<"  [", issues'[k].type, "] ",
                              Slice(issues'[k].message, 0, 80)>>]
                 ELSE stderr
    /\ pc' = "html"
    /\ UNCHANGED <<build, doc, files, spans, out, out2, fixes, args, fs, log,
                   stdout, outfile, status>>

\* content, fixes = fix_html_tags(content); all_fixes.extend(fixes)
\*                                                  fix_latex_errors.py:266-267
PassHtml ==
    /\ pc = "html"
    /\ out' = fix_html_tags(out).content
    /\ fixes' = fixes \o fix_html_tags(out).fixes
    /\ pc' = "mismatched"
    /\ UNCHANGED <<doc, files, spans, out2, issues, io, build>>

\* content, fixes = fix_mismatched_environments(content)
\*                                                  fix_latex_errors.py:269-270
PassMismatched ==
    /\ pc = "mismatched"
    /\ \E order \in Orders(EnvNames(out)) :
          /\ out' = fix_mismatched_environments(out, order).content
          /\ fixes' = fixes \o fix_mismatched_environments(out, order).fixes
    /\ pc' = "figures"
    /\ UNCHANGED <<doc, files, spans, out2, issues, io, build>>

\* content, fixes = fix_missing_figures(content, tex_dir)
\*                                                  fix_latex_errors.py:272-273
PassFigures ==
    /\ pc = "figures"
    /\ out' = fix_missing_figures(out, files).content
    /\ fixes' = fixes \o fix_missing_figures(out, files).fixes
    /\ pc' = "math"
    /\ UNCHANGED <<doc, files, spans, out2, issues, io, build>>

\* content, fixes = fix_missing_math_mode(content)  fix_latex_errors.py:275-276
PassMathMode ==
    /\ pc = "math"
    /\ out' = fix_missing_math_mode(out).content
    /\ fixes' = fixes \o fix_missing_math_mode(out).fixes
    /\ pc' = "report"
    /\ UNCHANGED <<doc, files, spans, out2, issues, io, build>>

\* the lines "  - [name] description" of the fixes
FixLines(all_fixes) ==
    [k \in 1..Len(all_fixes) |->
       <<"  - [", all_fixes[k].name, "] ", all_fixes[k].description>>]

NoFixesNeeded == <<"No fixes needed.">>

\* if args.dry_run: list the fixes on stdout and exit 0
\*                                                  fix_latex_errors.py:278-284
ReportDryRun ==
    /\ pc = "report"
    /\ args.dry_run
    /\ stdout' = stdout
                 \o <<<<"## Fixes that would be applied (", Len(fixes), "):">>>>
                 \o FixLines(fixes)
                 \o (IF fixes = <<>> THEN <<NoFixesNeeded>> ELSE <<>>)
    /\ status' = <<0>>
    /\ pc' = "exit"
    /\ UNCHANGED <<build, doc, files, spans, out, out2, fixes, issues, args, fs, log,
                   stderr, outfile>>

\* if not all_fixes: say so on stderr and exit 0    fix_latex_errors.py:286-288
ReportNoFixes ==
    /\ pc = "report"
    /\ ~args.dry_run
    /\ fixes = <<>>
    /\ stderr' = Append(stderr, NoFixesNeeded)
    /\ status' = <<0>>
    /\ pc' = "exit"
    /\ UNCHANGED <<build, doc, files, spans, out, out2, fixes, issues, args, fs, log,
                   stdout, outfile>>

\* the fixes are listed on stderr and the content is written to
\* args.output, or to stdout without --output       fix_latex_errors.py:290-299
WriteOutput ==
    /\ pc = "report"
    /\ ~args.dry_run
    /\ fixes # <<>>
    /\ IF args.output # None
       THEN /\ outfile' = Append(outfile, out)
            /\ stderr' = stderr \o <<<<"Applied ", Len(fixes), " fixes:">>>>
                         \o FixLines(fixes)
                         \o <<<<"Fixed file written to ", args.output>>>>
            /\ stdout' = stdout
       ELSE /\ stdout' = Append(stdout, <<"text", out>>)
            /\ stderr' = stderr \o <<<<"Applied ", Len(fixes), " fixes:">>>>
                         \o FixLines(fixes)
            /\ outfile' = outfile
    /\ status' = <<0>>
    /\ pc' = "exit"
    /\ UNCHANGED <<build, doc, files, spans, out, out2, fixes, issues, args, fs, log>>

NextMain ==
    \/ TexMissing \/ ReadTex \/ LoadLog \/ ParseLog
    \/ PassHtml \/ PassMismatched \/ PassFigures \/ PassMathMode
    \/ ReportDryRun \/ ReportNoFixes \/ WriteOutput

SpecMain == InitMain /\ [][NextMain]_vars

\* every step of main runs to its end once it is reached
SpecMainLive == SpecMain /\ WF_vars(NextMain)

----------------------------------------------------------------------------
(* Properties of a run of fix_latex_errors.main                            *)

\* the document texts the run has emitted: written to the output file
\* when --output is given, else written to standard output
EmittedTexts ==
    IF args.output # None THEN outfile
    ELSE [k \in 1..Cardinality({j \in 1..Len(stdout) : stdout[j][1] = "text"}) |->
            stdout[CHOOSE j \in 1..Len(stdout) :
                     /\ stdout[j][1] = "text"
                     /\ Cardinality({i \in 1..j : stdout[i][1] = "text"}) = k][2]]

\* C11 (as claimed): every run on a readable document (the log, when one
\* is consulted, readable too; the run not a dry run) terminates and has
\* emitted the document text, which is the input when no Fix was produced.
C11_TerminatesWithText ==
    (fs.tex = "readable" /\ fs.log # "unreadable" /\ ~args.dry_run) =>
        <>(/\ pc = "exit"
           /\ Len(EmittedTexts) = 1
           /\ EmittedTexts[1] = out
           /\ fixes = <<>> => EmittedTexts[1] = doc)

\* C15 (as claimed): when the document is absent, or a log file named by
\* the caller is absent, the run reports the error and exits at once: no
\* repair pass is reached, no Fix recorded, nothing written.
C15_MissingInputFatal ==
    (fs.tex = "absent" \/ (args.log # None /\ fs.log = "absent")) =>
        /\ pc \in {"main", "log", "exit"}
        /\ fixes = <<>>
        /\ stdout = <<>>
        /\ outfile = <<>>
        /\ pc = "exit" => (status = <<1>> /\ stderr # <<>>)

\* the run has told that no fixes are needed
SaidNoFixesNeeded ==
    \/ \E k \in 1..Len(stderr) : stderr[k] = NoFixesNeeded
    \/ \E k \in 1..Len(stdout) : stdout[k] = NoFixesNeeded

----------------------------------------------------------------------------
(* parse_errors as a state machine: a compiler log is read and parsed.     *)

MaxLogPieces == 3

LogPieces ==
    { <<"!", " ">>, <<"!">>, <<NL>>,
      <<"U", "n", "d", "e", "f", "i", "n", "e", "d", " ", "c", "o", "n", "t", "r", "o", "l", " ", "s", "e", "q", "u", "e", "n", "c", "e">>,
      <<"M", "i", "s", "s", "i", "n", "g", " ", "$", " ", "i", "n", "s", "e", "r", "t", "e", "d">>,
      <<"M", "i", "s", "s", "i", "n", "g", " ", "{", " ", "i", "n", "s", "e", "r", "t", "e", "d">>,
      <<"E", "n", "v", "i", "r", "o", "n", "m", "e", "n", "t">>,
      <<"u", "n", "d", "e", "f", "i", "n", "e", "d">>,
      <<"F", "i", "l", "e", " ", "x", " ", "n", "o", "t", " ", "f", "o", "u", "n", "d">>,
      <<"M", "i", "s", "p", "l", "a", "c", "e", "d", " ", "a", "l", "i", "g", "n", "m", "e", "n", "t", " ", "t", "a", "b">>,
      <<"C", "i", "t", "a", "t", "i", "o", "n">>,
      <<"R", "e", "f", "e", "r", "e", "n", "c", "e">>,
      <<"u0060", "k", "u0027">> }

\* "LaTeX Warning: Reference `Citation1' on page 1 undefined on input
\* line 5."
ReferenceWarningExample ==
    <<"L", "a", "T", "e", "X", " ", "W", "a", "r", "n", "i", "n", "g", ":", " ", "R", "e", "f", "e", "r", "e", "n", "c", "e", " ", "u0060", "C", "i", "t", "a", "t", "i", "o", "n", "1", "u0027", " ", "o", "n", " ", "p", "a", "g", "e", " ", "1", " ", "u", "n", "d", "e", "f", "i", "n", "e", "d", " ", "o", "n", " ", "i", "n", "p", "u", "t", " ", "l", "i", "n", "e", " ", "5", ".">>

\* "LaTeX Warning: Citation `a' on page 1 undefined on input line 5."
CitationWarningExample ==
    <<"L", "a", "T", "e", "X", " ", "W", "a", "r", "n", "i", "n", "g", ":", " ", "C", "i", "t", "a", "t", "i", "o", "n", " ", "u0060", "a", "u0027", " ", "o", "n", " ", "p", "a", "g", "e", " ", "1", " ", "u", "n", "d", "e", "f", "i", "n", "e", "d", " ", "o", "n", " ", "i", "n", "p", "u", "t", " ", "l", "i", "n", "e", " ", "5", ".">>

\* "! Undefined control sequence.", "!pdfTeX error: x", "! Emergency stop."
MixedLogExample ==
    <<"!", " ", "U", "n", "d", "e", "f", "i", "n", "e", "d", " ", "c", "o", "n", "t", "r", "o", "l", " ", "s", "e", "q", "u", "e", "n", "c", "e", ".", "\n", "!", "p", "d", "f", "T", "e", "X", " ", "e", "r", "r", "o", "r", ":", " ", "x", "\n", "!", " ", "E", "m", "e", "r", "g", "e", "n", "c", "y", " ", "s", "t", "o", "p", ".">>

LogDocs ==
    Concats(LogPieces, MaxLogPieces)
    \cup {LogExample, ReferenceWarningExample, CitationWarningExample,
          MixedLogExample}

InitLog ==
    /\ pc = "input"
    /\ log \in LogDocs
    /\ doc = <<>>
    /\ files = {}
    /\ spans = <<>>
    /\ out = <<>>
    /\ out2 = <<>>
    /\ fixes = <<>>
    /\ issues = <<>>
    /\ args = None
    /\ fs = None
    /\ stdout = <<>>
    /\ stderr = <<>>
    /\ outfile = <<>>
    /\ status = <<>>
    /\ NoBuild

\* errors = parse_errors(log_content)
ParseErrors ==
    /\ pc = "input"
    /\ issues' = parse_errors(log)
    /\ pc' = "parsed"
    /\ UNCHANGED <<build, doc, files, spans, out, out2, fixes, args, fs, log,
                   stdout, stderr, outfile, status>>

NextLog == ParseErrors

SpecLog == InitLog /\ [][NextLog]_vars

----------------------------------------------------------------------------
(* Claims about parse_errors.                                              *)

WarningKinds == {"undefined_citation", "undefined_reference"}

ErrorKinds ==
    {"undefined_command", "missing_math", "missing_brace", "undefined_env",
     "missing_file", "misplaced_tab", "other"}

\* the issues that are not undefined-citation / undefined-reference issues
ErrorIssues ==
    LET IsError(e) == e.type \notin WarningKinds
    IN  SelectSeq(issues, IsError)

\* the log lines that begin with lit, in log order
LinesWith(lit) ==
    LET Begins(l) == HasAt(l, 0, lit)
    IN  SelectSeq(SplitLines(log), Begins)

\* the text of a '!' line after the marker and one blank that follows it
Remainder(l) ==
    IF HasAt(l, 0, <<"!", " ">>) THEN Slice(l, 2, Len(l))
    ELSE Slice(l, 1, Len(l))

\* C12 (as stated): parse_errors produces exactly one error issue per log
\* line that begins with the marker '!', in log order, with the remainder
\* of the line as message, so the number of such lines equals the number
\* of error issues.
C12_OneIssuePerBangLine ==
    pc = "parsed" =>
        /\ Len(ErrorIssues) = Len(LinesWith(<<"!">>))
        /\ \A k \in 1..Len(ErrorIssues) :
             k <= Len(LinesWith(<<"!">>)) =>
                ErrorIssues[k].message = Remainder(LinesWith(<<"!">>)[k])

\* C12 (amended): parse_errors produces exactly one error issue per log
\* line that begins with '! ' (exclamation mark and blank), in log order,
\* with the text after these two characters as message and a kind of the
\* error kinds (Other included), so the number of '! ' lines equals the
\* number of error issues; a line that begins with '!' without the blank
\* produces no issue.
C12_OneIssuePerMarkedLine ==
    pc = "parsed" =>
        /\ Len(ErrorIssues) = Len(LinesWith(<<"!", " ">>))
        /\ \A k \in 1..Len(ErrorIssues) :
             /\ ErrorIssues[k].message =
                  Slice(LinesWith(<<"!", " ">>)[k], 2,
                        Len(LinesWith(<<"!", " ">>)[k]))
             /\ ErrorIssues[k].type \in ErrorKinds

\* C12 witness: a parsed log with two marked lines of different messages, one
\* of them of kind Other, and a '!' line without the blank.
C12_Witness ==
    /\ pc = "parsed"
    /\ Len(ErrorIssues) >= 2
    /\ ErrorIssues[1].message # ErrorIssues[2].message
    /\ \E k \in 1..Len(ErrorIssues) : ErrorIssues[k].type = "other"
    /\ Len(LinesWith(<<"!">>)) > Len(LinesWith(<<"!", " ">>))

\* the kinds of the known phrasings, in the order of the tests
PhrasingKinds ==
    <<"undefined_command", "missing_math", "missing_brace", "undefined_env",
      "missing_file", "misplaced_tab">>

\* the k-th phrasing occurs in msg
Occurs(k, msg) ==
    CASE k = 1 -> Contains(msg, <<"U", "n", "d", "e", "f", "i", "n", "e", "d", " ", "c", "o", "n", "t", "r", "o", "l", " ", "s", "e", "q", "u", "e", "n", "c", "e">>)
      [] k = 2 -> Contains(msg, <<"M", "i", "s", "s", "i", "n", "g", " ", "$", " ", "i", "n", "s", "e", "r", "t", "e", "d">>)
      [] k = 3 -> \/ Contains(msg, <<"M", "i", "s", "s", "i", "n", "g", " ", "}", " ", "i", "n", "s", "e", "r", "t", "e", "d">>)
                  \/ Contains(msg, <<"M", "i", "s", "s", "i", "n", "g", " ", "{", " ", "i", "n", "s", "e", "r", "t", "e", "d">>)
      [] k = 4 -> /\ Contains(msg, <<"E", "n", "v", "i", "r", "o", "n", "m", "e", "n", "t">>)
                  /\ Contains(msg, <<"u", "n", "d", "e", "f", "i", "n", "e", "d">>)
      [] k = 5 -> /\ Contains(msg, <<"F", "i", "l", "e">>)
                  /\ Contains(msg, <<"n", "o", "t", " ", "f", "o", "u", "n", "d">>)
      [] k = 6 -> Contains(msg, <<"M", "i", "s", "p", "l", "a", "c", "e", "d", " ", "a", "l", "i", "g", "n", "m", "e", "n", "t", " ", "t", "a", "b">>)

PhrasingsIn(msg) == {k \in 1..Len(PhrasingKinds) : Occurs(k, msg)}

\* C13: the kind of each error issue is that of the first phrasing, in the
\* fixed order, that occurs in its message, and Other when none occurs;
\* '! Undefined control sequence.' is an undefined command with message
\* 'Undefined control sequence.'.
C13_FirstPhrasingKind ==
    pc = "parsed" =>
        /\ \A k \in 1..Len(ErrorIssues) :
             ErrorIssues[k].type =
                IF PhrasingsIn(ErrorIssues[k].message) = {} THEN "other"
                ELSE PhrasingKinds[MinOf(PhrasingsIn(ErrorIssues[k].message))]
        /\ log = LogExample =>
             /\ Len(ErrorIssues) = 1
             /\ ErrorIssues[1].type = "undefined_command"
             /\ ErrorIssues[1].message = <<"U", "n", "d", "e", "f", "i", "n", "e", "d", " ", "c", "o", "n", "t", "r", "o", "l", " ", "s", "e", "q", "u", "e", "n", "c", "e", ".">>

\* C13 witness: an error issue whose message holds the alignment-tab phrasing
\* to the left of the undefined-control-sequence phrasing.
C13_Witness ==
    /\ pc = "parsed"
    /\ \E k \in 1..Len(ErrorIssues) :
         /\ {1, 6} \subseteq PhrasingsIn(ErrorIssues[k].message)
         /\ Find(ErrorIssues[k].message, <<"M", "i", "s", "p", "l", "a", "c", "e", "d", " ", "a", "l", "i", "g", "n", "m", "e", "n", "t", " ", "t", "a", "b">>, 0)
              < Find(ErrorIssues[k].message, <<"U", "n", "d", "e", "f", "i", "n", "e", "d", " ", "c", "o", "n", "t", "r", "o", "l", " ", "s", "e", "q", "u", "e", "n", "c", "e">>, 0)
         /\ ErrorIssues[k].type = "undefined_command"

\* the line reports an undefined citation / an undefined reference
ReportsCitation(l) ==
    Contains(l, <<"C", "i", "t", "a", "t", "i", "o", "n">>) /\ Contains(l, <<"u", "n", "d", "e", "f", "i", "n", "e", "d">>)

ReportsReference(l) ==
    Contains(l, <<"R", "e", "f", "e", "r", "e", "n", "c", "e">>) /\ Contains(l, <<"u", "n", "d", "e", "f", "i", "n", "e", "d">>)

\* the issues of one kind, in order
IssuesOf(kind) ==
    LET IsKind(e) == e.type = kind
    IN  SelectSeq(issues, IsKind)

\* C14: for every log line that reports an undefined citation (an undefined
\* reference) exactly one undefined_citation (undefined_reference) issue
\* is emitted, carrying the key quoted on that line, and no such issue is
\* emitted for any other line.
C14_OneIssuePerWarningLine ==
    pc = "parsed" =>
        /\ Len(IssuesOf("undefined_citation"))
             = Len(SelectSeq(SplitLines(log), ReportsCitation))
        /\ Len(IssuesOf("undefined_reference"))
             = Len(SelectSeq(SplitLines(log), ReportsReference))
        /\ \A k \in 1..Len(IssuesOf("undefined_citation")) :
             k <= Len(SelectSeq(SplitLines(log), ReportsCitation)) =>
                IssuesOf("undefined_citation")[k].key
                  = QuotedKey(SelectSeq(SplitLines(log), ReportsCitation)[k])
        /\ \A k \in 1..Len(IssuesOf("undefined_reference")) :
             k <= Len(SelectSeq(SplitLines(log), ReportsReference)) =>
                IssuesOf("undefined_reference")[k].key
                  = QuotedKey(SelectSeq(SplitLines(log), ReportsReference)[k])

----------------------------------------------------------------------------
(* Segmentation and character replacement on documents with openers,       *)
(* closers, comment markers and special characters.                        *)

MaxSegmentPieces == 3

figure == <<"f", "i", "g", "u", "r", "e">>

SegmentPieces ==
    { <<"$">>, <<"%">>, <<BS>>, <<"&">>, <<BS, "(">>,
      BeginLit(figure), EndLit(figure), EndLit(figure \o <<"*">>) }

\* "$a % b$"
DollarCommentExample ==
    <<"$", "a", " ", "%", " ", "b", "$">>

\* "\begin{figure}\begin{figure}x\end{figure}y\end{figure}"
NestedFigureExample ==
    BeginLit(figure) \o BeginLit(figure) \o <<"x">> \o EndLit(figure)
    \o <<"y">> \o EndLit(figure)

\* "\begin{figure*}a\end{figure}b\end{figure*}c\end{figure*}"
StarredFigureExample ==
    BeginLit(figure \o <<"*">>) \o <<"a">> \o EndLit(figure) \o <<"b">>
    \o EndLit(figure \o <<"*">>) \o <<"c">> \o EndLit(figure \o <<"*">>)

\* "a_b $$ x<y", "x°^2 \< \\& |", "\(a<b\) \[ c%d" and two lines that
\* end with comments, "$a %b" and "c$ & %"
\* "\$a&b\$"
EscapedDollarExample ==
    <<BS, "$", "a", "&", "b", BS, "$">>

SegmentExamples ==
    { DollarCommentExample, NestedFigureExample, StarredFigureExample,
      EscapedDollarExample,
      <<"a", "_", "b", " ", "$", "$", " ", "x", "<", "y">>,
      <<"x", "u00b0", "^", "2", " ", BS, "<", " ", BS, BS, "&", " ", "|">>,
      <<BS, "(", "a", "<", "b", BS, ")", " ", BS, "[", " ", "c", "%", "d">>,
      <<"$", "a", " ", "%", "b", NL, "c", "$", " ", "&", " ", "%">> }

SegmentDocs == Concats(SegmentPieces, MaxSegmentPieces) \cup SegmentExamples

InitSegment ==
    /\ pc = "input"
    /\ doc \in SegmentDocs
    /\ files = {}
    /\ spans = <<>>
    /\ out = <<>>
    /\ out2 = <<>>
    /\ fixes = <<>>
    /\ issues = <<>>
    /\ NoRun
    /\ NoBuild

\* replace_special_latex_chars(doc)
ReplaceSpecial ==
    /\ pc = "input"
    /\ out' = replace_special_latex_chars(doc)
    /\ pc' = "replaced"
    /\ UNCHANGED <<doc, files, spans, out2, fixes, issues, io, build>>

NextSegment == Segment \/ Escape \/ ReplaceSpecial

SpecSegment == InitSegment /\ [][NextSegment]_vars

----------------------------------------------------------------------------
(* Claims about segmentation and replace_special_latex_chars.              *)

\* the end of the candidate match at offset s of the rules of rank p,
\* -1 when there is none
CandidateEnd(text, s, p) ==
    CASE p = 1 -> ReComment(text, s)
      [] p = 2 -> IF ReCommandDef(text, s) # -1 THEN ReCommandDef(text, s)
                  ELSE ReDef(text, s)
      [] p = 3 -> IF ReDisplayMath(text, s) # -1 THEN ReDisplayMath(text, s)
                  ELSE ReInlineMath(text, s)
      [] p = 4 -> IF ReParenMath(text, s) # -1 THEN ReParenMath(text, s)
                  ELSE ReBracketMath(text, s)
      [] p = 5 -> ReNamedEnv(text, s, 1)
      [] p = 6 -> ReSkipCommand(text, s)

\* the offsets from..(to - 1) at which some rule has a candidate
CandidateStarts(from, to) ==
    {s \in from..(to - 1) : \E p \in 1..6 : CandidateEnd(doc, s, p) # -1}

\* the indices of the protected spans
ProtectedSpans == {k \in 1..Len(spans) : spans[k].kind # "Plain"}

\* C17 (as stated): when candidates of two rules overlap, the emitted span
\* is the candidate of the higher-priority rule: no emitted span overlaps a
\* candidate of a rule of higher priority, and in "$a % b$" the text from
\* the comment marker on is a Comment span.
C17_PriorityResolvesOverlap ==
    pc = "segmented" =>
        /\ \A k \in ProtectedSpans :
             \A p \in 1..(RulePriority(spans[k].kind) - 1) :
                \A s \in 0..(spans[k].end - 1) :
                   CandidateEnd(doc, s, p) <= spans[k].start
        /\ doc = DollarCommentExample =>
             \E k \in ProtectedSpans :
                /\ spans[k].kind = "Comment"
                /\ spans[k].start = 3
                /\ spans[k].end = 7

\* C17 (amended): the emitted span is the candidate that starts leftmost
\* at or after the end of the previous protected span, whatever its rule;
\* the priority order decides only between candidates at the same offset;
\* "$a % b$" is one InlineMath span.
C17_LeftmostResolvesOverlap ==
    pc = "segmented" =>
        /\ \A k \in ProtectedSpans :
             /\ CandidateStarts(spans[k - 1].start, spans[k].start) = {}
             /\ \E p \in 1..6 :
                  /\ CandidateEnd(doc, spans[k].start, p) = spans[k].end
                  /\ RulePriority(spans[k].kind) = p
                  /\ \A q \in 1..(p - 1) :
                       CandidateEnd(doc, spans[k].start, q) = -1
        /\ CandidateStarts(spans[Len(spans)].start, Len(doc)) = {}
        /\ doc = DollarCommentExample =>
             spans = <<[start |-> 0, end |-> 0, kind |-> "Plain"],
                       [start |-> 0, end |-> 7, kind |-> "InlineMath"],
                       [start |-> 7, end |-> 7, kind |-> "Plain"]>>

\* C17 witness: an emitted span of a lower-priority rule that overlaps a
\* comment candidate starting inside it.
C17_Witness ==
    /\ pc = "segmented"
    /\ \E k \in ProtectedSpans :
         /\ RulePriority(spans[k].kind) > 1
         /\ \E s \in (spans[k].start + 1)..(spans[k].end - 1) :
              ReComment(doc, s) # -1

\* an opener of a protected construct at offset s with no matching closer
\* anywhere after it
UnclosedOpenerAt(s) ==
    \/ /\ HasAt(doc, s, <<"$", "$">>)
       /\ Find(doc, <<"$", "$">>, s + 2) = -1
    \/ /\ At(doc, s) = "$"
       /\ \/ Find(doc, <<"$">>, s + 1) = -1
          \/ /\ IsLoneDollar(doc, s)
             /\ \A j \in (s + 1)..(Len(doc) - 1) : ~IsLoneDollar(doc, j)
    \/ /\ HasAt(doc, s, <<BS, "(">>)
       /\ Find(doc, <<BS, ")">>, s + 2) = -1
    \/ /\ HasAt(doc, s, <<BS, "[">>)
       /\ Find(doc, <<BS, "]">>, s + 2) = -1
    \/ \E n \in 1..Len(LATEX_ENV_NAMES) :
          /\ HasAt(doc, s, <<BS, "b", "e", "g", "i", "n", "{">>
                             \o LATEX_ENV_NAMES[n] \o <<"}">>)
          /\ Find(doc, <<BS, "e", "n", "d", "{">>
                         \o LATEX_ENV_NAMES[n] \o <<"}">>,
                  s + Len(LATEX_ENV_NAMES[n]) + 8) = -1

\* the index of the span that holds offset s
SpanAt(s) ==
    CHOOSE k \in 1..Len(spans) : spans[k].start <= s /\ s < spans[k].end

\* C18: for an opener with no matching closer after it the escape pass
\* emits no protected span that starts at the opener; the opener lies in a
\* Plain span unless a span that starts before it holds it, and that Plain
\* span comes out as replace_special_latex_chars of its text.
C18_UnclosedOpenerPlain ==
    pc = "escaped" =>
        \A s \in 0..(Len(doc) - 1) :
           UnclosedOpenerAt(s) =>
              /\ \A k \in ProtectedSpans : spans[k].start # s
              /\ \E k \in 1..Len(spans) :
                   /\ spans[k].start <= s
                   /\ s < spans[k].end
                   /\ spans[k].kind = "Plain" \/ spans[k].start < s
              /\ spans[SpanAt(s)].kind = "Plain" =>
                   HasAt(out, EscapedOffset(SpanAt(s)),
                         replace_special_latex_chars(
                             SpanText(doc, spans[SpanAt(s)])))

\* C18 witness: an opener without closer lies in a Plain span whose special
\* characters have been escaped.
C18_Witness ==
    /\ pc = "escaped"
    /\ \E s \in 0..(Len(doc) - 1) :
         /\ HasAt(doc, s, <<BS, "(">>) \/ HasAt(doc, s, BeginLit(figure))
         /\ UnclosedOpenerAt(s)
         /\ spans[SpanAt(s)].kind = "Plain"
         /\ \E j \in (s + 1)..(spans[SpanAt(s)].end - 1) :
              SpecialMatchAt(doc, j)
         /\ out # doc

\* the allow-list name whose \begin{name} stands at offset s
OpenedNames(s) ==
    {n \in 1..Len(LATEX_ENV_NAMES) :
        HasAt(doc, s, <<BS, "b", "e", "g", "i", "n", "{">>
                        \o LATEX_ENV_NAMES[n] \o <<"}">>)}

\* the offsets >= from where \end{name} stands, name the n-th name
ClosersOf(n, from) ==
    {j \in from..(Len(doc) - 1) :
        HasAt(doc, j, <<BS, "e", "n", "d", "{">>
                        \o LATEX_ENV_NAMES[n] \o <<"}">>)}

\* C19: a named-environment span starts at a \begin{name} of the
\* allow-list and ends with the first following \end{name} of the
\* identical name; a \begin{name} followed by no \end{name} of that name
\* starts no span.
C19_FirstIdenticalCloser ==
    pc = "segmented" =>
        /\ \A k \in ProtectedSpans :
             spans[k].kind = "NamedEnvironment" =>
                \E n \in OpenedNames(spans[k].start) :
                   /\ ClosersOf(n, spans[k].start) # {}
                   /\ spans[k].end
                        = MinOf(ClosersOf(n, spans[k].start))
                            + Len(LATEX_ENV_NAMES[n]) + 6
        /\ \A s \in 0..(Len(doc) - 1) :
             \A n \in OpenedNames(s) :
                ClosersOf(n, s) = {} =>
                   \A k \in ProtectedSpans :
                      ~(spans[k].kind = "NamedEnvironment"
                        /\ spans[k].start = s)

\* C19 witness: a named-environment span that ends at the first of two
\* closers of its name, with a \begin of the same name or an \end of
\* another name inside it.
C19_Witness ==
    /\ pc = "segmented"
    /\ \E k \in ProtectedSpans :
         /\ spans[k].kind = "NamedEnvironment"
         /\ \E n \in OpenedNames(spans[k].start) :
              /\ Cardinality(ClosersOf(n, spans[k].start)) >= 2
              /\ spans[k].end < Len(doc)
              /\ \/ \E s \in (spans[k].start + 1)..(spans[k].end - 1) :
                       n \in OpenedNames(s)
                 \/ \E m \in 1..Len(LATEX_ENV_NAMES) :
                       /\ m # n
                       /\ \E j \in ClosersOf(m, spans[k].start) :
                             j < spans[k].end

\* what the character at index k of doc is replaced by: its table value
\* for a key not preceded by a backslash, else the character itself
ReplacementOf(k) ==
    IF doc[k] \in DOMAIN CHARS /\ (k = 1 \/ doc[k - 1] # BS)
    THEN CHARS[doc[k]] ELSE <<doc[k]>>

\* the offset in the output at which the replacement of index k begins
RECURSIVE ReplacedOffset(_)
ReplacedOffset(k) ==
    IF k = 1 THEN 0 ELSE ReplacedOffset(k - 1) + Len(ReplacementOf(k - 1))

\* C20: replace_special_latex_chars puts, for every character of the
\* text in order, the table value of a key that no backslash precedes and
\* the character itself otherwise, each decided on the original text, and
\* nothing else.
C20_SinglePassReplacement ==
    pc = "replaced" =>
        /\ \A k \in 1..Len(doc) :
             HasAt(out, ReplacedOffset(k), ReplacementOf(k))
        /\ Len(out) = ReplacedOffset(Len(doc) + 1)

\* C20 witness: the text holds a replaced key, a key kept after a
\* backslash, and a key whose table value holds a key again.
C20_Witness ==
    /\ pc = "replaced"
    /\ \E k \in 2..Len(doc) : doc[k] \in DOMAIN CHARS /\ doc[k - 1] = BS
    /\ \E k \in 1..Len(doc) :
         /\ doc[k] \in DOMAIN CHARS
         /\ (k = 1 \/ doc[k - 1] # BS)
         /\ \E j \in 1..Len(CHARS[doc[k]]) :
              CHARS[doc[k]][j] \in DOMAIN CHARS
    /\ out # doc

\* the offsets of the dollar signs of doc that a backslash precedes
EscapedDollars ==
    {s \in 1..(Len(doc) - 1) : At(doc, s) = "$" /\ At(doc, s - 1) = BS}

\* doc holds two \$ and no other dollar sign
TwoEscapedDollars ==
    /\ Cardinality(EscapedDollars) = 2
    /\ \A s \in 0..(Len(doc) - 1) : At(doc, s) = "$" => s \in EscapedDollars

\* the offsets after the first \$ and before the second
BetweenEscapedDollars ==
    (MinOf(EscapedDollars) + 1)..(MaxOf(EscapedDollars) - 2)

\* C25: in a text with two \$ and no other dollar sign no span is dollar
\* math, the text between the two \$ lies in Plain spans (or in a span of
\* a rule other than dollar math that starts there), and the Plain spans
\* come out with every unescaped special character escaped.
C25_EscapedDollarNotMath ==
    (pc = "escaped" /\ TwoEscapedDollars) =>
        /\ \A k \in 1..Len(spans) :
             spans[k].kind \notin {"InlineMath", "DisplayMath"}
        /\ \A s \in BetweenEscapedDollars :
             spans[SpanAt(s)].kind = "Plain" =>
                HasAt(out, EscapedOffset(SpanAt(s)),
                      replace_special_latex_chars(
                          SpanText(doc, spans[SpanAt(s)])))

----------------------------------------------------------------------------
(* Claims about the frame of the repair passes.                            *)

\* the offsets of the last k occurrences of lit in text
LastOccurrences(text, lit, k) ==
    LET at == {j \in 0..(Len(text) - 1) : HasAt(text, j, lit)}
    IN  {j \in at : Cardinality({i \in at : i > j}) < k}

\* how many closers of name n the document has too many / too few
ExcessEnds(n) ==
    Max(0, Occurrences(doc, EndLit(n)) - Occurrences(doc, BeginLit(n)))

MissingEnds(n) ==
    Max(0, Occurrences(doc, BeginLit(n)) - Occurrences(doc, EndLit(n)))

\* index i of doc lies in one of the last ExcessEnds(n) closers of a name
InExcessCloser(i) ==
    \E n \in DelimitedNames(doc) :
       \E j \in LastOccurrences(doc, EndLit(n), ExcessEnds(n)) :
          j < i /\ i <= j + Len(EndLit(n))

\* the document without the excess closers
WithoutExcessClosers ==
    LET Keep(i) == ~InExcessCloser(i)
        idx == SelectSeq([i \in 1..Len(doc) |-> i], Keep)
    IN  [k \in 1..Len(idx) |-> doc[idx[k]]]

\* text without its whitespace characters
NonWhitespace(text) ==
    LET Black(c) == c \notin Whitespace
    IN  SelectSeq(text, Black)

\* lit written m times
RECURSIVE Repeat(_, _)
Repeat(lit, m) == IF m <= 0 THEN <<>> ELSE lit \o Repeat(lit, m - 1)

\* the missing closers of the names of order, name after name
MissingClosers(order) ==
    Join([k \in 1..Len(order) |->
            Repeat(EndLit(order[k]), MissingEnds(order[k]))])

\* C21: the output of fix_mismatched_environments is the input without the
\* last k closers of every name with k more ends than begins, every other
\* character kept in order, followed by the missing closers of the names
\* with more begins than ends (each on a line of its own) and by nothing
\* else.
C21_MismatchFrame ==
    pc = "mismatched" =>
        /\ Slice(out, 0, Len(WithoutExcessClosers)) = WithoutExcessClosers
        /\ \E order \in Orders({n \in DelimitedNames(doc) : MissingEnds(n) > 0}) :
              NonWhitespace(Slice(out, Len(WithoutExcessClosers), Len(out)))
                = MissingClosers(order)

\* C22: balance checking and mismatch repair cover every environment name,
\* starred names and names outside LATEX_ENV_NAMES included: the check
\* reports every name whose begin and end counts differ, and the repair
\* appends the missing closers of every name with more begins than ends;
\* \begin{equation*} alone yields a finding for equation* and an appended
\* \end{equation*}.
C22_AllNamesCovered ==
    /\ pc = "checked" =>
         \A n \in DelimitedNames(doc) :
            Occurrences(doc, BeginLit(n)) # Occurrences(doc, EndLit(n)) =>
               \E k \in 1..Len(issues) : issues[k].env = n
    /\ pc = "mismatched" =>
         \A n \in DelimitedNames(doc) :
            MissingEnds(n) > 0 =>
               Occurrences(out, EndLit(n))
                 >= Occurrences(doc, EndLit(n)) + MissingEnds(n)

\* C26: fix_mismatched_environments is deterministic: the output text and
\* the sequence of Fixes of a run are those of every run on the same
\* document, whatever the iteration order of the set of names.
C26_MismatchDeterministic ==
    pc = "mismatched" =>
        \A order \in Orders(EnvNames(doc)) :
           fix_mismatched_environments(doc, order)
             = [content |-> out, fixes |-> fixes]

\* C27: fix_html_tags is idempotent: applied to its own output it records
\* no Fix and returns that output unchanged.
C27_HtmlIdempotent ==
    pc = "html" => fix_html_tags(out) = [content |-> out, fixes |-> <<>>]

\* C28: the document and the Fixes a run of main has after its four
\* passes are those of every run on the same document and the same
\* existing files: they are the passes applied to the document, whatever
\* the log holds and whether one was read.
C28_ResultIndependentOfLog ==
    pc = "report" =>
        \A order \in Orders(EnvNames(fix_html_tags(doc).content)) :
           ApplyFixes(doc, files, order) = [content |-> out, fixes |-> fixes]

\* the result of a run is the passes applied to the document in one of the
\* iteration orders of the names, with no part taken from the log
ResultOfSomeOrder ==
    pc = "report" =>
        \E order \in Orders(EnvNames(fix_html_tags(doc).content)) :
           ApplyFixes(doc, files, order) = [content |-> out, fixes |-> fixes]

\* the lines of doc that hold a part of an \includegraphics whose file is
\* missing
MissingFigureLines ==
    UNION { LineOf(doc, m.start)..LineOf(doc, m.end - 1) :
            m \in { FigIter(doc, 0)[k] :
                    k \in { j \in 1..Len(FigIter(doc, 0)) :
                              ~FigureFound(FigIter(doc, 0)[j].path, files) } } }

\* C29: fix_missing_figures keeps the number and the order of the lines,
\* and every line that holds no \includegraphics with a missing file is
\* the same line in the output.
C29_FiguresFrame ==
    pc = "figures" =>
        /\ LineCount(out) = LineCount(doc)
        /\ \A n \in 1..LineCount(doc) :
             n \notin MissingFigureLines => Line(out, n) = Line(doc, n)

\* the column specification of the first tabular environment of doc: the
\* brace group that directly follows \begin{tabular}, <<>> without one
ColumnSpec ==
    LET body == TabularBody(doc)
    IN  IF HasAt(body, 0, <<"{">>) /\ Find(body, <<"}">>, 0) # -1
        THEN Slice(body, 0, Find(body, <<"}">>, 0) + 1)
        ELSE <<>>

\* C30: in tables-only mode a document without tabular environment is
\* returned as it is; with one, the text before it is unchanged, the
\* column specification that follows \begin{tabular} stands unchanged
\* behind it, and the output has the '&' of the input.
C30_TablesOnlyFrame ==
    pc = "tables" =>
        IF HasTabular(doc)
        THEN /\ Slice(out, 0, TabularAt(doc)) = Slice(doc, 0, TabularAt(doc))
             /\ HasAt(out, TabularAt(doc), TabularBegin \o ColumnSpec)
             /\ Occurrences(out, <<"&">>) = Occurrences(doc, <<"&">>)
        ELSE out = doc

----------------------------------------------------------------------------
(* compile_paper.py: the compilation sequence and the auto-fix loop        *)

\* re.search(r"\\begin\{filecontents\}\{.*\.bib\}", tex_content): the
\* argument ends with .bib} on the line of its opening brace
FilecontentsBib(tex_content) ==
    \E i \in 0..(Len(tex_content) - 1) :
       /\ HasAt(tex_content, i, <<BS, "b", "e", "g", "i", "n", "{", "f", "i", "l", "e", "c", "o", "n", "t", "e", "n", "t", "s", "}", "{">>)
       /\ \E j \in (i + 22)..(Len(tex_content) - 1) :
            /\ HasAt(tex_content, j, <<".", "b", "i", "b", "}">>)
            /\ ScanTo(tex_content, {NL}, i + 22) >= j

\* check_bib_exists(tex_content)                       compile_paper.py:40-44
check_bib_exists(tex_content) ==
    \/ Contains(tex_content, <<BS, "b", "i", "b", "l", "i", "o", "g", "r", "a", "p", "h", "y", "{">>)
    \/ FilecontentsBib(tex_content)
    \/ Contains(tex_content, <<BS, "a", "d", "d", "b", "i", "b", "r", "e", "s", "o", "u", "r", "c", "e", "{">>)

\* the return codes of run_command: the exit code of the command, -1 after
\* subprocess.TimeoutExpired, -2 after FileNotFoundError
\*                                                     compile_paper.py:25-37
TimedOut == -1
NotFound == -2
ReturnCodes == {0, 1, TimedOut, NotFound}

Pdflatex == "pdflatex"
Bibtex == "bibtex"
Chktex == "chktex"

\* the compilation sequence                          compile_paper.py:106-112
CompilationSequence(has_bib) ==
    <<Pdflatex>>
    \o (IF has_bib THEN <<Bibtex, Pdflatex>> ELSE <<>>)
    \o <<Pdflatex>>

\* a command loop that a timeout and a failure of any pdflatex pass end
AfterCommandStrict(rc, cmd, i, flag) ==
    IF rc = NotFound
    THEN [success |-> FALSE, return |-> TRUE, break |-> FALSE]
    ELSE IF rc = TimedOut
    THEN [success |-> FALSE, return |-> FALSE, break |-> TRUE]
    ELSE IF rc # 0 /\ cmd = Pdflatex
    THEN [success |-> FALSE, return |-> FALSE, break |-> TRUE]
    ELSE [success |-> flag, return |-> FALSE, break |-> FALSE]

\* the branch of the command loop for return code rc of the command cmd at
\* index i (from 0): the success flag, and whether the function returns
\* at once or the loop is left                       compile_paper.py:130-151
AfterCommand(rc, cmd, i, flag) ==
    IF rc = NotFound
    THEN [success |-> FALSE, return |-> TRUE, break |-> FALSE]
    ELSE IF rc = TimedOut
    THEN [success |-> FALSE, return |-> FALSE, break |-> FALSE]
    ELSE IF rc # 0 /\ cmd = Pdflatex /\ i = 0
    THEN [success |-> FALSE, return |-> FALSE, break |-> TRUE]
    ELSE [success |-> flag, return |-> FALSE, break |-> FALSE]

\* for attempt in range(1, 4)                          compile_paper.py:243
MaxAttempts == 3

\* a loop that goes on after a compilation that succeeded
RetryAlways(flag, auto_fix, script, n) ==
    auto_fix /\ script = "readable" /\ n < MaxAttempts

\* main goes on to an auto-fix attempt: the compilation has failed,
\* --auto-fix is given, the fix script exists and attempts are left
\*                                                  compile_paper.py:240-261
Retry(flag, auto_fix, script, n) ==
    ~flag /\ auto_fix /\ script = "readable" /\ n < MaxAttempts

CompileDocs ==
    { <<"x">>,
      <<BS, "b", "i", "b", "l", "i", "o", "g", "r", "a", "p", "h", "y", "{", "r", "}">>,
      <<BS, "b", "i", "b", "l", "i", "o", "g", "r", "a", "p", "h", "y", "s", "t", "y", "l", "e", "{", "p", "}">>,
      <<BS, "b", "e", "g", "i", "n", "{", "f", "i", "l", "e", "c", "o", "n", "t", "e", "n", "t", "s", "}", "{", "r", ".", "b", "i", "b", "}">>,
      <<BS, "b", "e", "g", "i", "n", "{", "f", "i", "l", "e", "c", "o", "n", "t", "e", "n", "t", "s", "}", "{", "r", "}", NL, "{", ".", "b", "i", "b", "}">>,
      <<BS, "a", "d", "d", "b", "i", "b", "r", "e", "s", "o", "u", "r", "c", "e", "{", "r", ".", "b", "i", "b", "}">>,
      <<"<", "p", ">">>,
      <<"<", "p", ">">> \o BeginLit(<<"a">>) \o BeginLit(<<"b">>) }

\* tex_file; --check-style and --auto-fix are flags
\*                                                  compile_paper.py:225-231
CompileArgs == [check_style : BOOLEAN, auto_fix : BOOLEAN]

InitCompile ==
    /\ pc = "compile"
    /\ doc \in CompileDocs
    /\ files = {}
    /\ args \in CompileArgs
    /\ fs \in [tex : {"absent", "readable"},
               fix_script : {"absent", "readable"},
               pdf : {"absent"}]
    /\ log = <<>>
    /\ spans = <<>>
    /\ out = <<>>
    /\ out2 = <<>>
    /\ fixes = <<>>
    /\ issues = <<>>
    /\ stdout = <<>>
    /\ stderr = <<>>
    /\ outfile = <<>>
    /\ status = <<>>
    /\ NoBuild

\* compile_latex: the .tex file does not exist       compile_paper.py:92-95
CompileTexMissing ==
    /\ pc = "compile"
    /\ fs.tex = "absent"
    /\ stderr' = Append(stderr, <<"Error: ", "paper.tex", " not found">>)
    /\ commands' = <<>>
    /\ ran' = <<>>
    /\ success' = FALSE
    /\ pc' = "return"
    /\ UNCHANGED <<doc, files, spans, out, out2, fixes, issues, args, fs, log,
                   stdout, outfile, status, attempt, calls>>

\* compile_latex: the file is read and the sequence is built
\*                                                  compile_paper.py:97-121
BuildCommands ==
    /\ pc = "compile"
    /\ fs.tex = "readable"
    /\ commands' = CompilationSequence(check_bib_exists(doc))
    /\ ran' = <<>>
    /\ success' = TRUE
    /\ pc' = "commands"
    /\ UNCHANGED <<doc, files, spans, out, out2, fixes, issues, io, attempt,
                   calls>>

\* one iteration of the command loop: the next command is run and ends
\* with some return code                             compile_paper.py:123-151
RunCommand ==
    /\ pc = "commands"
    /\ Len(ran) < Len(commands)
    /\ \E rc \in ReturnCodes :
          /\ ran' = Append(ran, [cmd |-> commands[Len(ran) + 1], rc |-> rc])
          /\ success' = AfterCommand(rc, commands[Len(ran) + 1], Len(ran),
                                     success).success
          /\ pc' = IF AfterCommand(rc, commands[Len(ran) + 1], Len(ran),
                                   success).return
                   THEN "return"
                   ELSE IF \/ AfterCommand(rc, commands[Len(ran) + 1],
                                           Len(ran), success).break
                           \/ Len(ran) + 1 = Len(commands)
                        THEN "pdf"
                        ELSE "commands"
    /\ UNCHANGED <<doc, files, spans, out, out2, fixes, issues, io, commands,
                   attempt, calls>>

\* the check for the output PDF, which exists or not
\*                                                  compile_paper.py:153-168
CheckPdf ==
    /\ pc = "pdf"
    /\ \E pdf \in {"absent", "readable"} :
          /\ fs' = [fs EXCEPT !.pdf = pdf]
          /\ success' = (success /\ pdf = "readable")
    /\ pc' = IF args.check_style THEN "style" ELSE "return"
    /\ UNCHANGED <<doc, files, spans, out, out2, fixes, issues, args, log,
                   stdout, stderr, outfile, status, commands, ran, attempt,
                   calls>>

\* the style check with chktex, whose return code is only reported
\*                                                  compile_paper.py:187-202
StyleCheck ==
    /\ pc = "style"
    /\ \E rc \in ReturnCodes : ran' = Append(ran, [cmd |-> Chktex, rc |-> rc])
    /\ pc' = "return"
    /\ UNCHANGED <<doc, files, spans, out, out2, fixes, issues, io, commands,
                   success, attempt, calls>>

\* return success: main has the result of the call
\*                                     compile_paper.py:221, 233-238, 253-258
Return ==
    /\ pc = "return"
    /\ calls' = Append(calls, IF success THEN "compile_ok" ELSE "compile_failed")
    /\ pc' = "compiled"
    /\ UNCHANGED <<doc, files, spans, out, out2, fixes, issues, io, commands,
                   ran, success, attempt>>

\* one auto-fix attempt: fix_latex_errors.py --tex paper.tex --auto-detect
\* --output paper.tex is run, which rewrites the file when it has recorded
\* a Fix, then compile_latex is called again          compile_paper.py:243-258
AutoFix ==
    /\ pc = "compiled"
    /\ Retry(success, args.auto_fix, fs.fix_script, attempt)
    /\ attempt' = attempt + 1
    /\ calls' = Append(calls, "fix")
    /\ IF fs.tex = "absent"
       THEN /\ stderr' = Append(stderr, <<"Error: ", "paper.tex", " not found">>)
            /\ UNCHANGED <<doc, fixes>>
       ELSE \E r \in { ApplyFixes(doc, files, order) :
                       order \in Orders(EnvNames(fix_html_tags(doc).content)) } :
               /\ fixes' = r.fixes
               /\ doc' = IF r.fixes # <<>> THEN r.content ELSE doc
               /\ stderr' = IF r.fixes # <<>>
                            THEN Append(stderr, FixLines(r.fixes))
                            ELSE Append(stderr, NoFixesNeeded)
    /\ pc' = "compile"
    /\ UNCHANGED <<files, spans, out, out2, issues, args, fs, log, stdout,
                   outfile, status, commands, ran, success>>

\* sys.exit(0 if success else 1)                       compile_paper.py:263
Exit ==
    /\ pc = "compiled"
    /\ ~Retry(success, args.auto_fix, fs.fix_script, attempt)
    /\ status' = <<IF success THEN 0 ELSE 1>>
    /\ pc' = "exit"
    /\ UNCHANGED <<doc, files, spans, out, out2, fixes, issues, args, fs, log,
                   stdout, stderr, outfile, build>>

NextCompile ==
    \/ CompileTexMissing \/ BuildCommands \/ RunCommand \/ CheckPdf
    \/ StyleCheck \/ Return \/ AutoFix \/ Exit

SpecCompile == InitCompile /\ [][NextCompile]_vars

\* the documents of the runs whose end is checked: one without a repair
\* and one the repair script rewrites
CompileLiveDocs == { <<"x">>, <<"<", "p", ">">> }

InitCompileLive ==
    /\ InitCompile
    /\ doc \in CompileLiveDocs

\* every step of the run is taken once it is reached: a command ends, and
\* main goes on
SpecCompileLive ==
    InitCompileLive /\ [][NextCompile]_vars /\ WF_vars(NextCompile)

----------------------------------------------------------------------------
(* Claims about compile_paper.py.                                          *)

\* the commands of the compilation sequence run so far (the style check
\* is not one of them)
SequenceRan ==
    LET InSequence(r) == r.cmd # "chktex"
    IN  SelectSeq(ran, InSequence)

\* the order the commands are to have for the document
ExpectedSequence ==
    IF check_bib_exists(doc)
    THEN <<"pdflatex", "bibtex", "pdflatex", "pdflatex">>
    ELSE <<"pdflatex", "pdflatex">>

\* a call of compile_latex is under way, or about to return
InCompileLatex == pc \in {"commands", "pdf", "style", "return"}

\* C24: compile_latex runs pdflatex, then bibtex and pdflatex only for a
\* document that references a bibliography, then pdflatex; a non-zero
\* exit of the first pass ends the sequence, a missing tool makes the call
\* return failure at once, a timeout does not end the sequence, and the
\* call returns success iff no command timed out or was missing, the
\* first pass exited zero and the PDF exists afterwards.
C24_CompilationSequence ==
    InCompileLatex =>
        /\ Len(SequenceRan) <= Len(ExpectedSequence)
        /\ \A k \in 1..Len(SequenceRan) :
             /\ SequenceRan[k].cmd = ExpectedSequence[k]
             /\ ran[k] = SequenceRan[k]
        /\ (Len(ran) >= 1 /\ ran[1].rc \notin {0, -1, -2}) =>
             (Len(SequenceRan) = 1 /\ pc # "commands")
        /\ \A k \in 1..Len(SequenceRan) :
             SequenceRan[k].rc = -2 =>
                (k = Len(ran) /\ pc = "return" /\ ~success)
        /\ (pc \in {"pdf", "style"} /\ ran[1].rc \in {0, -1}) =>
             Len(SequenceRan) = Len(ExpectedSequence)
        /\ pc = "return" =>
             (success <=>
                /\ Len(SequenceRan) >= 1
                /\ \A k \in 1..Len(SequenceRan) :
                     SequenceRan[k].rc \notin {-1, -2}
                /\ SequenceRan[1].rc = 0
                /\ fs.pdf = "readable")

\* C24 witness: a call for a document with a bibliography returns failure
\* after all four commands have run, one of the first three having timed
\* out.
C24_Witness ==
    /\ pc = "return"
    /\ ~success
    /\ Len(SequenceRan) = 4
    /\ \E k \in 1..3 : SequenceRan[k].rc = -1
    /\ SequenceRan[2].cmd = "bibtex"

\* how often main has run the repair script
FixRuns == Cardinality({k \in 1..Len(calls) : calls[k] = "fix"})

\* the rounds of the auto-fix loop are bounded and well-formed
BoundedAutoFix ==
    /\ attempt <= 3
    /\ FixRuns = attempt
    /\ \A k \in 1..Len(calls) :
         /\ calls[k] = "fix" =>
              /\ k > 1
              /\ calls[k - 1] = "compile_failed"
              /\ k < Len(calls) => calls[k + 1] # "fix"
         /\ calls[k] = "compile_ok" => k = Len(calls)
    /\ FixRuns > 0 => (args.auto_fix /\ calls[1] = "compile_failed")
    /\ pc = "exit" =>
         /\ Len(calls) = 2 * FixRuns + 1
         /\ calls[Len(calls)] # "fix"
         /\ status = <<0>> <=> calls[Len(calls)] = "compile_ok"
         /\ status \in {<<0>>, <<1>>}

\* C23: the auto-fix loop of main is bounded: at most 3 rounds, each one
\* run of the repair script followed by one compilation, none after a
\* compilation that succeeded, none when the first compilation succeeded
\* or --auto-fix is not given; the run ends, and its exit status is
\* success iff the last compilation succeeded.
C23_BoundedAutoFix == []BoundedAutoFix /\ <>(pc = "exit")

\* C23 witness: the run has ended with success after a second round.
C23_Witness ==
    /\ pc = "exit"
    /\ attempt = 2
    /\ status = <<0>>
    /\ calls = <<"compile_failed", "fix", "compile_failed", "fix", "compile_ok">>

====
